---- MODULE Spec2Model ----
(***************************************************************************)
(* Model of the USB device control engine of universal-scarlette-gui:     *)
(*   - the FCP protocol engine for Gen 4 devices  (scarlett-usb gen4_fcp) *)
(*   - the Scarlett2 protocol engine for Gen 2/3  (scarlett-usb gen3_...) *)
(*   - the hotplug monitor of the device detector (scarlett-usb detection)*)
(* Each engine has its own specification (Spec, SpecScarlett2,            *)
(* SpecMonitor); the variables of the other engines stay at their initial *)
(* values under it.                                                       *)
(***************************************************************************)
EXTENDS Integers, Sequences, FiniteSets, TLC

VARIABLES
    \* ---- FcpProtocol (gen4_fcp.rs:421-426) ----
    initialized,      \* FcpProtocol.initialized
    seq_num,          \* FcpProtocol.seq_num (u16)
    interface_num,    \* FcpProtocol.interface_num (u8)
    overflow_checks,  \* build profile: TRUE = integer overflow panics (debug),
                      \*                FALSE = it wraps (release)
    issued,           \* history: number of commands issued on the session so far
    ever_ready,       \* history: init() has succeeded at least once
    last_op,          \* history: the last operation called, with its arguments
    was_initialized,  \* history: the initialized flag when last_op was called
    xfers,            \* history: the transfers last_op issued on the transport
    result,           \* history: what last_op returned
    \* ---- Scarlett2Protocol (gen3_protocol.rs:44-47) ----
    sequence,         \* Scarlett2Protocol.sequence (u8)
    s2_issued,        \* history: number of send_command calls so far
    s2_op,            \* history: the last method called, with its arguments
    s2_written,       \* history: buffers passed to control_write by the last call
    s2_response,      \* history: what control_read returned in the last call
    s2_result,        \* history: what the last call returned
    \* ---- hotplug monitor task (detection.rs:110-146) ----
    current_devices,  \* the task's snapshot (Vec<DeviceInfo>)
    channel,          \* events sent on event_tx and not yet received
    received,         \* history: events the receiver has taken, in order
    sent,             \* history: every event sent, with the tick that sent it
    ticks,            \* history: number of ticks so far
    scans,            \* history: what the scan of each tick returned
    tick_log,         \* history: the last tick (snapshot before, scan result, events)
    \* ---- DirectUsbTransport (direct_usb_transport.rs:37-161) ----
    tr_state,         \* position of the calling task: "idle", "blocked" (inside
                      \* block_on), "returned"
    tr_call,          \* the method called, with its descriptor and buffer length
    tr_elapsed_ms,    \* time since the transfer was submitted
    tr_completion,    \* what the device has completed the transfer with
    tr_result,        \* what the call returned
    \* ---- firmware parser (firmware.rs) ----
    fw_file,          \* the bytes of the file at the path given to the parser
    fw_op,            \* history: the last function called, with its arguments
    fw_result,        \* history: what it returned
    fw_image,         \* the FirmwareFile the caller holds (the last one parsed)
    \* ---- UsbDevice (device_impl.rs:12-28) and Box<dyn Protocol> ----
    dev_device,       \* the UsbDevice the caller holds, if open() returned one
    dev_protocol,     \* the Box<dyn Protocol> the caller holds, if any
    dev_op,           \* history: the last function called, with its arguments
    dev_result,       \* history: what it returned
    dev_calls,        \* history: the calls made on the open UsbDevice and on
                      \* its Scarlett2 engine, with the messages each wrote
    \* ---- a Gen 4 device behind the FCP session, and its other users ----
    device_mem,       \* the device's configuration space: address -> byte
    dv_output,        \* the output the caller of the session works on
    dv_held,          \* the caller's volume in dB (given, or taken from
                      \* get_volume); current = the device still holds it
    dv_last_set,      \* history: the dB of the session's last set_volume, while
                      \* nothing else has written the field since
    dv_pending,       \* the read-modify-write call in progress: its read has
                      \* been answered, its write has not been sent
    dv_alone,         \* the session is the device's only user
    dv_calls,         \* history, while the session is the only user: the
                      \* calls that returned, with what the device held before
    dv_other,         \* history: what another actor last wrote to the device
                      \* between the read and the write of a call
    \* ---- the USB bus and DeviceDetector / DeviceModel lookups ----
    usb_devices,      \* the devices attached, in enumeration order
    det_op,           \* history: the last function called, with its argument
    det_result,       \* history: what it returned
    \* ---- ControlTransfer descriptors a caller builds ----
    ct_built,         \* the last descriptor built: constructor, arguments,
                      \* and the descriptor
    \* ---- the Scarlett2 volume helpers ----
    vh_call,          \* the last helper called: name, argument, result
    \* ---- FCP socket messages ----
    msg_call          \* the last encoding or decoding: name, argument, the
                      \* bytes in between, result

fcp_vars == <<initialized, seq_num, interface_num, overflow_checks, issued,
              ever_ready, last_op, was_initialized, xfers, result>>
s2_vars  == <<sequence, s2_issued, s2_op, s2_written, s2_response, s2_result>>
mon_vars == <<current_devices, channel, received, sent, ticks, scans, tick_log>>
tr_vars  == <<tr_state, tr_call, tr_elapsed_ms, tr_completion, tr_result>>
fw_vars  == <<fw_file, fw_op, fw_result, fw_image>>
dev_vars == <<dev_device, dev_protocol, dev_op, dev_result, dev_calls>>
dv_vars  == <<device_mem, dv_output, dv_held, dv_last_set, dv_pending, dv_other,
              dv_alone, dv_calls>>
det_vars == <<usb_devices, det_op, det_result>>
ct_vars  == <<ct_built>>
vh_vars  == <<vh_call>>
msg_vars == <<msg_call>>
ext_vars == <<tr_vars, fw_vars, dev_vars, dv_vars, det_vars, ct_vars, vh_vars, msg_vars>>
vars     == <<fcp_vars, s2_vars, mon_vars, ext_vars>>

-----------------------------------------------------------------------------
(* Bounds of the model *)

\* commands an FCP session issues after the state it starts in
MaxCommands == 3
\* an FCP session is also started after this many commands, so that the
\* 16-bit sequence counter reaches its last value within MaxCommands
NearWrap == 65534
\* send_command calls on one Scarlett2 session (more than 2^8, to see the wrap)
MaxS2Commands == 258
\* ticks of the hotplug monitor
MaxTicks == 3
\* commands an FCP session issues on a device that stores what is written,
\* after the handshake
MaxDeviceCommands == 2
\* the same on a device that has no other user
MaxAloneCommands == 4
\* USB devices attached at a time
MaxAttached == 2
\* seconds a blocked transfer is watched for
MaxElapsedSecs == 4
\* bytes of payload in a firmware file
MaxPayloadLen == 2

-----------------------------------------------------------------------------
(* Integer widths and little-endian encoding *)

\* TLC's integers are 32-bit signed: values of an i32 are kept as they are,
\* values of a u32 that may exceed 2^31 - 1 are kept as their two 16-bit halves.

\* u16::to_le_bytes, u32::to_le_bytes and i32::to_le_bytes (\div rounds down,
\* so a negative x yields its two's complement bytes)
u16_to_le_bytes(x) == << x % 256, (x \div 256) % 256 >>
u32_to_le_bytes(x) == << x % 256, (x \div 256) % 256, (x \div 65536) % 256,
                         (x \div 16777216) % 256 >>

\* u16::from_le_bytes
u16_from_le_bytes(b) == b[1] + 256 * b[2]
\* u32::from_le_bytes, as <<high half, low half>>
u32_from_le_bytes(b) == << b[3] + 256 * b[4], b[1] + 256 * b[2] >>

\* i8 / i16 / i32 ::from_le_bytes: two's complement
i8_from_le_bytes(b)  == IF b[1] >= 128 THEN b[1] - 256 ELSE b[1]
i16_from_le_bytes(b) == LET u == u16_from_le_bytes(b)
                        IN  IF u >= 32768 THEN u - 65536 ELSE u
i32_from_le_bytes(b) == b[1] + 256 * b[2] + 65536 * b[3]
                            + 16777216 * i8_from_le_bytes(<<b[4]>>)

\* i32::clamp
clamp(x, lo, hi) == IF x < lo THEN lo ELSE IF x > hi THEN hi ELSE x

\* `let x = e; F(x)`: e is evaluated once and F applied to its value
Let(e, F(_)) == CHOOSE y \in { F(x) : x \in {e} } : TRUE

-----------------------------------------------------------------------------
(* Transport: transfer descriptors and what the device answers *)

\* ControlTransfer::new: the timeout is Duration::from_secs(1)
ControlTransfer_new(request_type, request, value, index, direction) ==
    [request_type |-> request_type, request |-> request, value |-> value,
     index |-> index, direction |-> direction, timeout_ms |-> 1000]

class_out(request, value, index) == ControlTransfer_new(33, request, value, index, "Out")
class_in(request, value, index)  == ControlTransfer_new(161, request, value, index, "In")

\* Payload bytes a device may answer with: byte i of the payload is
\* fill[((i-1) % Len(fill)) + 1]
Fills == { <<0>>, <<255>>, <<127, 0>>, <<1, 0>>, <<100, 0>> }

\* What the transport does with one command:
\*   out_ok : control_out returns Ok
\*   in_ok  : control_in returns Ok
\*   len    : how many bytes control_in delivers ("full" = the whole buffer,
\*            "cut" = one byte less, "header" = the 16-byte envelope only,
\*            "short" = 15 bytes, "none" = 0 bytes)
\*   fill   : the payload bytes
\*   hdr    : the envelope the device puts before them ("echo" = opcode and
\*            sequence of the request, the payload length, error 0;
\*            "other_cmd", "bad_size", "stale_seq", "error" = the same with
\*            that one field changed)
Replies ==
    { [out_ok |-> FALSE, in_ok |-> FALSE, len |-> "none", fill |-> <<0>>, hdr |-> "echo"],
      [out_ok |-> TRUE,  in_ok |-> FALSE, len |-> "none", fill |-> <<0>>, hdr |-> "echo"] }
    \cup { [out_ok |-> TRUE, in_ok |-> TRUE, len |-> l, fill |-> <<0>>, hdr |-> "echo"] :
             l \in {"none", "short", "header"} }
    \cup { [out_ok |-> TRUE, in_ok |-> TRUE, len |-> l, fill |-> f, hdr |-> "echo"] :
             l \in {"full", "cut"}, f \in Fills }

Headers == {"echo", "other_cmd", "bad_size", "stale_seq", "error"}

\* The replies with every envelope a device may put before the payload
FramedReplies ==
    { [r EXCEPT !.hdr = h] : r \in { q \in Replies : q.in_ok }, h \in Headers }
        \cup { q \in Replies : ~q.in_ok }

\* Number of bytes control_in reports for a buffer of total_size bytes; never
\* more than the buffer (direct_usb_transport.rs:129)
ActualLen(reply, total_size) ==
    LET want == CASE reply.len = "full"   -> total_size
                  [] reply.len = "cut"    -> total_size - 1
                  [] reply.len = "header" -> 16
                  [] reply.len = "short"  -> 15
                  [] OTHER                -> 0
    IN  IF want > total_size THEN total_size ELSE want

\* The 16-byte envelope of a response to `request` that carries data_len
\* bytes of payload (struct scarlett2_usb_packet, gen4_fcp.rs:483-490)
ResponseHeader(hdr, request, data_len) ==
    (IF hdr = "other_cmd" THEN <<255, 255, 0, 0>> ELSE SubSeq(request, 1, 4))
    \o (IF hdr = "bad_size" THEN u16_to_le_bytes((data_len + 1) % 65536)
        ELSE u16_to_le_bytes(data_len % 65536))
    \o (IF hdr = "stale_seq"
        THEN u16_to_le_bytes((u16_from_le_bytes(SubSeq(request, 7, 8)) + 65535) % 65536)
        ELSE SubSeq(request, 7, 8))
    \o (IF hdr = "error" THEN <<1, 0, 0, 0>> ELSE <<0, 0, 0, 0>>)
    \o <<0, 0, 0, 0>>

\* The buffer after control_in: vec![0u8; total_size] with the first `actual`
\* bytes overwritten by the device (a 16-byte envelope, then the payload)
ResponseBuf(reply, total_size, request) ==
    LET actual == ActualLen(reply, total_size)
        header == ResponseHeader(reply.hdr, request,
                                 IF actual > 16 THEN actual - 16 ELSE 0)
    IN  [i \in 1..total_size |->
            IF i > actual THEN 0
            ELSE IF i <= 16 THEN header[i]
            ELSE reply.fill[((i - 17) % Len(reply.fill)) + 1]]

-----------------------------------------------------------------------------
(* FcpProtocol.  Every method is an operator from the session s (the fields  *)
(* of FcpProtocol plus the history of the call) and the transport's replies *)
(* to [s |-> the session afterwards, res |-> the value returned].           *)

\* FcpOpcode (gen4_fcp.rs:338-380): (category << 12) | command
FcpOpcode_Init1     == 0
FcpOpcode_Init2     == 2
FcpOpcode_MeterRead == 4097
FcpOpcode_MixInfo   == 8192
FcpOpcode_DataRead  == 28672
FcpOpcode_DataWrite == 28673

VOLUME_BIAS == 127
LINE_OUT_VOLUME_OFFSET == 52
MUTE_SWITCH_OFFSET == 92

Ok(s, v)       == [s |-> s, res |-> [kind |-> "ok", val |-> v]]
Err(s, kind)   == [s |-> s, res |-> [kind |-> kind, val |-> <<>>]]
IsOk(r)        == r.res.kind = "ok"

\* self.seq_num += 1 on a u16: with overflow checks the addition panics at
\* 65535, without them it wraps to 0
SeqOverflows(s) == s.seq_num + 1 > 65535 /\ overflow_checks
NextSeq(s)      == (s.seq_num + 1) % 65536

\* One transfer as the transport sees it (cmd: which command of the session
\* issued it; expects: the command's response_size; status/actual: what the
\* transport returned; data: the bytes sent, for an IN transfer the buffer
\* after the transfer)
OutXfer(s, request, response_size, reply) ==
    [dir |-> "out", transfer |-> class_out(2, 0, s.interface_num),
     data |-> request, length |-> Len(request), expects |-> response_size,
     status |-> IF reply.out_ok THEN "ok" ELSE "err",
     actual |-> IF reply.out_ok THEN Len(request) ELSE 0,
     cmd |-> s.issued]
InXfer(s, total_size, reply, request) ==
    [dir |-> "in", transfer |-> class_in(3, 0, s.interface_num),
     data |-> IF reply.in_ok THEN ResponseBuf(reply, total_size, request) ELSE <<>>,
     length |-> total_size, expects |-> total_size - 16,
     status |-> IF reply.in_ok THEN "ok" ELSE "err",
     actual |-> IF reply.in_ok THEN ActualLen(reply, total_size) ELSE 0,
     cmd |-> s.issued]

\* The 16-byte scarlett2_usb_packet header followed by the data
BuildRequest(opcode, request_data, seq) ==
    u32_to_le_bytes(opcode) \o u16_to_le_bytes(Len(request_data) % 65536)
        \o u16_to_le_bytes(seq) \o u32_to_le_bytes(0) \o u32_to_le_bytes(0)
        \o request_data

\* send_command reading the response before it has sent the request
send_command_in_first(s, opcode, request_data, response_size, reply) ==
    LET s1 == [s EXCEPT !.seq_num = NextSeq(s), !.issued = @ + 1]
        request == BuildRequest(opcode, request_data, s1.seq_num)
        total_size == 16 + response_size
        s2 == [s1 EXCEPT !.xfers = Append(@, InXfer(s1, total_size, reply, request))]
        s3 == [s2 EXCEPT !.xfers = Append(@, OutXfer(s2, request, response_size, reply))]
    IN  IF ~reply.in_ok \/ ~reply.out_ok THEN Err(s3, "usb")
        ELSE IF ActualLen(reply, total_size) < 16 THEN Err(s3, "protocol")
        ELSE Ok(s3, SubSeq(ResponseBuf(reply, total_size, request), 17,
                           ActualLen(reply, total_size)))

\* send_command taking a failed OUT transfer for a command without reply
send_command_swallows_out_error(s, opcode, request_data, response_size, reply) ==
    LET s1 == [s EXCEPT !.seq_num = NextSeq(s), !.issued = @ + 1]
        request == BuildRequest(opcode, request_data, s1.seq_num)
        s2 == [s1 EXCEPT !.xfers = Append(@, OutXfer(s1, request, response_size, reply))]
        total_size == 16 + response_size
        s3 == [s2 EXCEPT !.xfers = Append(@, InXfer(s2, total_size, reply, request))]
    IN  IF ~reply.out_ok \/ response_size = 0 THEN Ok(s2, <<>>)
        ELSE IF ~reply.in_ok THEN Err(s3, "usb")
        ELSE IF ActualLen(reply, total_size) < 16 THEN Err(s3, "protocol")
        ELSE Ok(s3, SubSeq(ResponseBuf(reply, total_size, request), 17,
                           ActualLen(reply, total_size)))

\* send_command addressing interface 0 whatever the session's interface is
send_command_index_zero(s, opcode, request_data, response_size, reply) ==
    IF SeqOverflows(s) THEN Err(s, "panic")
    ELSE
    LET s1 == [s EXCEPT !.seq_num = NextSeq(s), !.issued = @ + 1]
        request == BuildRequest(opcode, request_data, s1.seq_num)
        z1 == [s1 EXCEPT !.interface_num = 0]
        s2 == [s1 EXCEPT !.xfers = Append(@, OutXfer(z1, request, response_size, reply))]
        total_size == 16 + response_size
        s3 == [s2 EXCEPT !.xfers = Append(@, InXfer(z1, total_size, reply, request))]
        actual == ActualLen(reply, total_size)
        response_buf == ResponseBuf(reply, total_size, request)
    IN  IF ~reply.out_ok THEN Err(s2, "usb")
        ELSE IF response_size = 0 THEN Ok(s2, <<>>)
        ELSE IF ~reply.in_ok THEN Err(s3, "usb")
        ELSE IF actual < 16 THEN Err(s3, "protocol")
        ELSE Ok(s3, SubSeq(response_buf, 17, actual))

\* send_command returning the rest of the buffer, not the bytes received
send_command_whole_buffer(s, opcode, request_data, response_size, reply) ==
    IF SeqOverflows(s) THEN Err(s, "panic")
    ELSE
    LET s1 == [s EXCEPT !.seq_num = NextSeq(s), !.issued = @ + 1]
        request == BuildRequest(opcode, request_data, s1.seq_num)
        s2 == [s1 EXCEPT !.xfers = Append(@, OutXfer(s1, request, response_size, reply))]
        total_size == 16 + response_size
        s3 == [s2 EXCEPT !.xfers = Append(@, InXfer(s2, total_size, reply, request))]
        actual == ActualLen(reply, total_size)
        response_buf == ResponseBuf(reply, total_size, request)
    IN  IF ~reply.out_ok THEN Err(s2, "usb")
        ELSE IF response_size = 0 THEN Ok(s2, <<>>)
        ELSE IF ~reply.in_ok THEN Err(s3, "usb")
        ELSE IF actual < 16 THEN Err(s3, "protocol")
        ELSE Ok(s3, SubSeq(response_buf, 17, total_size))

\* send_command validating the envelope as the kernel driver does (echoed
\* sequence, error code)
send_command_validates_header(s, opcode, request_data, response_size, reply) ==
    IF SeqOverflows(s) THEN Err(s, "panic")
    ELSE
    LET s1 == [s EXCEPT !.seq_num = NextSeq(s), !.issued = @ + 1]
        request == BuildRequest(opcode, request_data, s1.seq_num)
        s2 == [s1 EXCEPT !.xfers = Append(@, OutXfer(s1, request, response_size, reply))]
        total_size == 16 + response_size
        s3 == [s2 EXCEPT !.xfers = Append(@, InXfer(s2, total_size, reply, request))]
        actual == ActualLen(reply, total_size)
        response_buf == ResponseBuf(reply, total_size, request)
    IN  IF ~reply.out_ok THEN Err(s2, "usb")
        ELSE IF response_size = 0 THEN Ok(s2, <<>>)
        ELSE IF ~reply.in_ok THEN Err(s3, "usb")
        ELSE IF actual < 16 THEN Err(s3, "protocol")
        ELSE IF u16_from_le_bytes(SubSeq(response_buf, 7, 8)) # s1.seq_num
                \/ SubSeq(response_buf, 9, 12) # <<0, 0, 0, 0>>
             THEN Err(s3, "protocol")
        ELSE Ok(s3, SubSeq(response_buf, 17, actual))

\* send_command giving the sequence number back when the command fails
send_command_seq_on_success(s, opcode, request_data, response_size, reply) ==
    IF SeqOverflows(s) THEN Err(s, "panic")
    ELSE
    LET s1 == [s EXCEPT !.seq_num = NextSeq(s), !.issued = @ + 1]
        request == BuildRequest(opcode, request_data, s1.seq_num)
        s2 == [s1 EXCEPT !.xfers = Append(@, OutXfer(s1, request, response_size, reply))]
        total_size == 16 + response_size
        s3 == [s2 EXCEPT !.xfers = Append(@, InXfer(s2, total_size, reply, request))]
        actual == ActualLen(reply, total_size)
        response_buf == ResponseBuf(reply, total_size, request)
    IN  IF ~reply.out_ok THEN Err([s2 EXCEPT !.seq_num = s.seq_num], "usb")
        ELSE IF response_size = 0 THEN Ok(s2, <<>>)
        ELSE IF ~reply.in_ok THEN Err([s3 EXCEPT !.seq_num = s.seq_num], "usb")
        ELSE IF actual < 16 THEN Err([s3 EXCEPT !.seq_num = s.seq_num], "protocol")
        ELSE Ok(s3, SubSeq(response_buf, 17, actual))

\* FcpProtocol::send_command
send_command(s, opcode, request_data, response_size, reply) ==
    IF SeqOverflows(s) THEN Err(s, "panic")
    ELSE
    LET s1 == [s EXCEPT !.seq_num = NextSeq(s), !.issued = @ + 1]
        request == BuildRequest(opcode, request_data, s1.seq_num)
        s2 == [s1 EXCEPT !.xfers = Append(@, OutXfer(s1, request, response_size, reply))]
        total_size == 16 + response_size
        s3 == [s2 EXCEPT !.xfers = Append(@, InXfer(s2, total_size, reply, request))]
        actual == ActualLen(reply, total_size)
        response_buf == ResponseBuf(reply, total_size, request)
    IN  IF ~reply.out_ok THEN Err(s2, "usb")
        ELSE IF response_size = 0 THEN Ok(s2, <<>>)
        ELSE IF ~reply.in_ok THEN Err(s3, "usb")
        ELSE IF actual < 16 THEN Err(s3, "protocol")
        ELSE Ok(s3, SubSeq(response_buf, 17, actual))

\* init setting the flag whatever the Init2 exchange returned
init_ignores_init2(s, env) ==
    Let(send_command(s, FcpOpcode_Init1, <<>>, 24, env[1]), LAMBDA r0 :
        IF ~IsOk(r0) THEN r0
        ELSE Let(send_command(r0.s, FcpOpcode_Init2, <<>>, 84, env[2]), LAMBDA r2 :
            [s |-> [r2.s EXCEPT !.initialized = TRUE], res |-> r2.res]))

\* init clearing the flag before the handshake
init_clears_flag_first(s, env) ==
    Let(send_command([s EXCEPT !.initialized = FALSE], FcpOpcode_Init1, <<>>, 24, env[1]),
        LAMBDA r0 :
        IF ~IsOk(r0) THEN r0
        ELSE Let(send_command(r0.s, FcpOpcode_Init2, <<>>, 84, env[2]), LAMBDA r2 :
            IF ~IsOk(r2) THEN r2
            ELSE Ok([r2.s EXCEPT !.initialized = TRUE],
                    <<r0.res.val, r2.res.val>>)))

\* FcpProtocol::init
init(s, env) ==
    Let(send_command(s, FcpOpcode_Init1, <<>>, 24, env[1]), LAMBDA r0 :
        IF ~IsOk(r0) THEN r0
        ELSE Let(send_command(r0.s, FcpOpcode_Init2, <<>>, 84, env[2]), LAMBDA r2 :
            IF ~IsOk(r2) THEN r2
            ELSE Ok([r2.s EXCEPT !.initialized = TRUE],
                    <<r0.res.val, r2.res.val>>)))

\* `count * 4` on a u16 (read_meters): panics on overflow with overflow
\* checks, wraps without them
MeterBytesOverflow(count) == count * 4 > 65535 /\ overflow_checks

\* response.chunks_exact(4) mapped through u32::from_le_bytes
RECURSIVE ParseU32s(_)
ParseU32s(bytes) ==
    IF Len(bytes) < 4 THEN <<>>
    ELSE <<u32_from_le_bytes(SubSeq(bytes, 1, 4))>>
            \o ParseU32s(SubSeq(bytes, 5, Len(bytes)))

\* FcpProtocol::read_meters
read_meters(s, count, env) ==
    IF ~s.initialized THEN Err(s, "protocol")
    ELSE IF MeterBytesOverflow(count) THEN Err(s, "panic")
    ELSE
    LET request == u16_to_le_bytes(0) \o u16_to_le_bytes(count) \o u32_to_le_bytes(0)
        r == send_command(s, FcpOpcode_MeterRead, request, (count * 4) % 65536, env[1])
    IN  IF ~IsOk(r) THEN r ELSE Ok(r.s, ParseU32s(r.res.val))

\* FcpProtocol::read_mix_info
read_mix_info(s, env) ==
    IF ~s.initialized THEN Err(s, "protocol")
    ELSE
    LET r == send_command(s, FcpOpcode_MixInfo, <<>>, 8, env[1])
    IN  IF ~IsOk(r) THEN r
        ELSE IF Len(r.res.val) < 2 THEN Err(r.s, "protocol")
        ELSE Ok(r.s, <<r.res.val[1], r.res.val[2]>>)

\* read_data without the initialized check
read_data_unchecked(s, offset, size, reply) ==
    LET request == u32_to_le_bytes(offset) \o u32_to_le_bytes(size)
        r == send_command(s, FcpOpcode_DataRead, request, size, reply)
    IN  IF ~IsOk(r) THEN r
        ELSE IF Len(r.res.val) < size THEN Err(r.s, "protocol")
        ELSE CASE size = 1 -> Ok(r.s, i8_from_le_bytes(r.res.val))
               [] size = 2 -> Ok(r.s, i16_from_le_bytes(r.res.val))
               [] size = 4 -> Ok(r.s, i32_from_le_bytes(r.res.val))
               [] OTHER    -> Err(r.s, "protocol")

\* FcpProtocol::read_data: the size is matched after the command was sent
read_data(s, offset, size, reply) ==
    IF ~s.initialized THEN Err(s, "protocol")
    ELSE
    LET request == u32_to_le_bytes(offset) \o u32_to_le_bytes(size)
        r == send_command(s, FcpOpcode_DataRead, request, size, reply)
        response == r.res.val
    IN  IF ~IsOk(r) THEN r
        ELSE IF Len(response) < size THEN Err(r.s, "protocol")
        ELSE CASE size = 1 -> Ok(r.s, i8_from_le_bytes(response))
               [] size = 2 -> Ok(r.s, i16_from_le_bytes(response))
               [] size = 4 -> Ok(r.s, i32_from_le_bytes(response))
               [] OTHER    -> Err(r.s, "protocol")

\* FcpProtocol::write_data: the size is matched before the command is sent
write_data(s, offset, size, value, reply) ==
    IF ~s.initialized THEN Err(s, "protocol")
    ELSE IF size \notin {1, 2, 4} THEN Err(s, "protocol")
    ELSE
    LET bytes == CASE size = 1 -> << value % 256 >>
                   [] size = 2 -> u16_to_le_bytes(value % 65536)
                   [] OTHER    -> u32_to_le_bytes(value)
        request == u32_to_le_bytes(offset) \o u32_to_le_bytes(size) \o bytes
        r == send_command(s, FcpOpcode_DataWrite, request, 0, reply)
    IN  IF ~IsOk(r) THEN r ELSE Ok(r.s, <<>>)

\* FcpProtocol::get_volume
get_volume(s, output_index, reply) ==
    IF ~s.initialized THEN Err(s, "protocol")
    ELSE
    LET offset == LINE_OUT_VOLUME_OFFSET + output_index * 2
        r == read_data(s, offset, 2, reply)
    IN  IF ~IsOk(r) THEN r ELSE Ok(r.s, r.res.val - VOLUME_BIAS)

\* set_volume without the clamp
set_volume_unclamped(s, output_index, volume_db, reply) ==
    IF ~s.initialized THEN Err(s, "protocol")
    ELSE
    LET device_value == volume_db + VOLUME_BIAS
        offset == LINE_OUT_VOLUME_OFFSET + output_index * 2
        r == write_data(s, offset, 2, device_value, reply)
    IN  IF ~IsOk(r) THEN r ELSE Ok(r.s, <<>>)

\* FcpProtocol::set_volume
set_volume(s, output_index, volume_db, reply) ==
    IF ~s.initialized THEN Err(s, "protocol")
    ELSE
    LET device_value == clamp(volume_db, -VOLUME_BIAS, 0) + VOLUME_BIAS
        offset == LINE_OUT_VOLUME_OFFSET + output_index * 2
        r == write_data(s, offset, 2, device_value, reply)
    IN  IF ~IsOk(r) THEN r ELSE Ok(r.s, <<>>)

\* adjust_volume setting the delta itself, whatever it read
adjust_volume_sets_delta(s, output_index, delta_db, env) ==
    Let(get_volume(s, output_index, env[1]), LAMBDA current :
        IF ~IsOk(current) THEN current
        ELSE Let(clamp(delta_db, -VOLUME_BIAS, 0), LAMBDA new_volume :
             Let(set_volume(current.s, output_index, new_volume, env[2]), LAMBDA r :
                IF ~IsOk(r) THEN r ELSE Ok(r.s, new_volume))))

\* FcpProtocol::adjust_volume
adjust_volume(s, output_index, delta_db, env) ==
    Let(get_volume(s, output_index, env[1]), LAMBDA current :
        IF ~IsOk(current) THEN current
        ELSE Let(clamp(current.res.val + delta_db, -VOLUME_BIAS, 0), LAMBDA new_volume :
             Let(set_volume(current.s, output_index, new_volume, env[2]), LAMBDA r :
                IF ~IsOk(r) THEN r ELSE Ok(r.s, new_volume))))

\* FcpProtocol::get_mute
get_mute(s, output_index, reply) ==
    IF ~s.initialized THEN Err(s, "protocol")
    ELSE
    LET r == read_data(s, MUTE_SWITCH_OFFSET + output_index, 1, reply)
    IN  IF ~IsOk(r) THEN r ELSE Ok(r.s, r.res.val # 0)

\* FcpProtocol::set_mute
set_mute(s, output_index, muted, reply) ==
    IF ~s.initialized THEN Err(s, "protocol")
    ELSE
    LET r == write_data(s, MUTE_SWITCH_OFFSET + output_index, 1,
                        IF muted THEN 1 ELSE 0, reply)
    IN  IF ~IsOk(r) THEN r ELSE Ok(r.s, <<>>)

\* toggle_mute writing back the state it read
toggle_mute_keeps_state(s, output_index, env) ==
    Let(get_mute(s, output_index, env[1]), LAMBDA current :
        IF ~IsOk(current) THEN current
        ELSE Let(current.res.val, LAMBDA new_state :
             Let(set_mute(current.s, output_index, new_state, env[2]), LAMBDA r :
                IF ~IsOk(r) THEN r ELSE Ok(r.s, new_state))))

\* FcpProtocol::toggle_mute
toggle_mute(s, output_index, env) ==
    Let(get_mute(s, output_index, env[1]), LAMBDA current :
        IF ~IsOk(current) THEN current
        ELSE Let(~current.res.val, LAMBDA new_state :
             Let(set_mute(current.s, output_index, new_state, env[2]), LAMBDA r :
                IF ~IsOk(r) THEN r ELSE Ok(r.s, new_state))))

-----------------------------------------------------------------------------
(* The FCP session as a state machine: one action per public method *)

\* Arguments the callers are given
Counts        == {0, 1, 2, 16384}
Offsets       == {LINE_OUT_VOLUME_OFFSET, MUTE_SWITCH_OFFSET}
Sizes         == {0, 1, 2, 3, 4}
Values        == {-1, 0, 1, 300}
OutputIndices == {0, 1}
VolumesDb     == {-200, -127, -6, 0, 5}
DeltasDb      == {-10, 0, 10}
InterfaceNums == {0, 3}

DataOps == {"read_meters", "read_mix_info", "read_data", "write_data",
            "get_volume", "set_volume", "adjust_volume", "get_mute",
            "set_mute", "toggle_mute"}

\* The session the next call works on; the call's transfer log starts empty
Session ==
    [initialized |-> initialized, seq_num |-> seq_num,
     interface_num |-> interface_num, issued |-> issued, xfers |-> <<>>]

\* The last command number the session may issue
CommandLimit == IF issued >= NearWrap THEN NearWrap + MaxCommands ELSE MaxCommands

\* No call is in progress and the last result has been taken; the session
\* takes one call at a time (&mut self)
Idle == last_op.name = "none"

\* A call that returned ret: the session's fields and the history are
\* updated.
Called(limit, name, args, ret) ==
    \E r \in {ret} :
    /\ r.s.issued <= limit
    /\ initialized' = r.s.initialized
    /\ seq_num' = r.s.seq_num
    /\ issued' = r.s.issued
    /\ xfers' = r.s.xfers
    /\ result' = r.res
    /\ last_op' = [name |-> name, args |-> args]
    /\ was_initialized' = initialized
    /\ ever_ready' = (ever_ready \/ (name = "init" /\ r.res.kind = "ok"))
    /\ UNCHANGED <<interface_num, overflow_checks>>

Returns(name, args, ret) ==
    /\ Called(CommandLimit, name, args, ret)
    /\ UNCHANGED <<s2_vars, mon_vars, ext_vars>>

FcpInit ==
    /\ Idle
    /\ \E env \in Replies \X Replies :
        Returns("init", <<>>, init(Session, env))

FcpReadMeters ==
    /\ Idle
    /\ \E count \in Counts, reply \in Replies :
        Returns("read_meters", <<count>>, read_meters(Session, count, <<reply>>))

FcpReadMixInfo ==
    /\ Idle
    /\ \E reply \in Replies :
        Returns("read_mix_info", <<>>, read_mix_info(Session, <<reply>>))

FcpReadData ==
    /\ Idle
    /\ \E offset \in Offsets, size \in Sizes, reply \in Replies :
        Returns("read_data", <<offset, size>>, read_data(Session, offset, size, reply))

FcpWriteData ==
    /\ Idle
    /\ \E offset \in Offsets, size \in Sizes, value \in Values, reply \in Replies :
        Returns("write_data", <<offset, size, value>>,
                write_data(Session, offset, size, value, reply))

FcpGetVolume ==
    /\ Idle
    /\ \E i \in OutputIndices, reply \in Replies :
        Returns("get_volume", <<i>>, get_volume(Session, i, reply))

FcpSetVolume ==
    /\ Idle
    /\ \E i \in OutputIndices, db \in VolumesDb, reply \in Replies :
        Returns("set_volume", <<i, db>>, set_volume(Session, i, db, reply))

FcpAdjustVolume ==
    /\ Idle
    /\ \E i \in OutputIndices, delta \in DeltasDb, env \in Replies \X Replies :
        Returns("adjust_volume", <<i, delta>>, adjust_volume(Session, i, delta, env))

FcpGetMute ==
    /\ Idle
    /\ \E i \in OutputIndices, reply \in Replies :
        Returns("get_mute", <<i>>, get_mute(Session, i, reply))

FcpSetMute ==
    /\ Idle
    /\ \E i \in OutputIndices, muted \in BOOLEAN, reply \in Replies :
        Returns("set_mute", <<i, IF muted THEN 1 ELSE 0>>,
                set_mute(Session, i, muted, reply))

FcpToggleMute ==
    /\ Idle
    /\ \E i \in OutputIndices, env \in Replies \X Replies :
        Returns("toggle_mute", <<i>>, toggle_mute(Session, i, env))

\* The commands the public methods hand to send_command: <<opcode,
\* request_data, response_size>>
SendCommandCalls ==
    { <<FcpOpcode_Init1, <<>>, 24>>,
      <<FcpOpcode_Init2, <<>>, 84>>,
      <<FcpOpcode_MixInfo, <<>>, 8>>,
      <<FcpOpcode_MeterRead,
        u16_to_le_bytes(0) \o u16_to_le_bytes(2) \o u32_to_le_bytes(0), 8>>,
      <<FcpOpcode_MeterRead,
        u16_to_le_bytes(0) \o u16_to_le_bytes(0) \o u32_to_le_bytes(0), 0>>,
      <<FcpOpcode_DataRead,
        u32_to_le_bytes(LINE_OUT_VOLUME_OFFSET) \o u32_to_le_bytes(2), 2>>,
      <<FcpOpcode_DataRead,
        u32_to_le_bytes(MUTE_SWITCH_OFFSET) \o u32_to_le_bytes(1), 1>>,
      <<FcpOpcode_DataWrite,
        u32_to_le_bytes(MUTE_SWITCH_OFFSET) \o u32_to_le_bytes(1) \o <<1>>, 0>> }

\* One command through send_command (the private method every public one
\* goes through)
FcpSendCommand ==
    /\ Idle
    /\ \E call \in SendCommandCalls, reply \in FramedReplies :
        Returns("send_command", <<call[1], call[2], call[3], reply>>,
                send_command(Session, call[1], call[2], call[3], reply))

\* The caller takes the value returned and the history of the call is
\* dropped.  A panic ends the session: nothing follows it.
FcpCallerTakesResult ==
    /\ ~Idle
    /\ result.kind # "panic"
    /\ last_op' = [name |-> "none", args |-> <<>>]
    /\ was_initialized' = initialized
    /\ xfers' = <<>>
    /\ result' = [kind |-> "none", val |-> <<>>]
    /\ UNCHANGED <<initialized, seq_num, interface_num, overflow_checks, issued,
                   ever_ready, s2_vars, mon_vars, ext_vars>>

\* FcpProtocol::new_with_interface, and the history of a session nothing was
\* called on
FcpFresh ==
    /\ initialized = FALSE
    /\ seq_num = 0
    /\ issued = 0
    /\ ever_ready = FALSE
    /\ last_op = [name |-> "none", args |-> <<>>]
    /\ was_initialized = FALSE
    /\ xfers = <<>>
    /\ result = [kind |-> "none", val |-> <<>>]

\* A session that has issued NearWrap commands since it was constructed
\* (init() called again and again, succeeding or not)
FcpNearWrap ==
    /\ initialized \in BOOLEAN
    /\ seq_num = NearWrap % 65536
    /\ issued = NearWrap
    /\ ever_ready = initialized
    /\ last_op = [name |-> "none", args |-> <<>>]
    /\ was_initialized = initialized
    /\ xfers = <<>>
    /\ result = [kind |-> "none", val |-> <<>>]

S2Fresh ==
    /\ sequence = 0
    /\ s2_issued = 0
    /\ s2_op = [name |-> "none", cmd |-> 0, data |-> <<>>]
    /\ s2_written = <<>>
    /\ s2_response = <<>>
    /\ s2_result = [kind |-> "none", val |-> <<>>]

MonFresh ==
    /\ current_devices = <<>>
    /\ channel = <<>>
    /\ received = <<>>
    /\ sent = <<>>
    /\ ticks = 0
    /\ scans = <<>>
    /\ tick_log = [before |-> <<>>, scan |-> [ok |-> FALSE, devices |-> <<>>],
                   events |-> <<>>]

\* No transfer has been submitted to the transport
TrFresh ==
    /\ tr_state = "idle"
    /\ tr_call = [op |-> "none", transfer |-> [timeout_ms |-> 0], len |-> 0,
                  nusb |-> [control_type |-> "none"]]
    /\ tr_elapsed_ms = 0
    /\ tr_completion = [status |-> "pending", len |-> 0]
    /\ tr_result = [kind |-> "none", val |-> 0]

\* No firmware file has been given to the parser
FwNothingParsed ==
    /\ fw_op = [name |-> "none", vid |-> 0, pid |-> 0]
    /\ fw_result = [kind |-> "none", msg |-> "", header |-> <<>>, data |-> <<>>]
    /\ fw_image = [present |-> FALSE, header |-> <<>>, data |-> <<>>]

\* No device has been opened and no protocol handler created
DevFresh ==
    /\ dev_device = [present |-> FALSE]
    /\ dev_protocol = [present |-> FALSE]
    /\ dev_op = [name |-> "none", model |-> "", generation |-> "", claimed |-> FALSE,
                 call |-> ""]
    /\ dev_result = [kind |-> "none", val |-> <<>>]
    /\ dev_calls = <<>>

\* No device is attached to the FCP session
DvDetached ==
    /\ device_mem = <<>>
    /\ dv_output = 0
    /\ dv_held = [db |-> 0, current |-> FALSE]
    /\ dv_last_set = [db |-> 0, current |-> FALSE]
    /\ dv_pending = [name |-> "none"]
    /\ dv_other = [addr |-> 0, bytes |-> <<>>]
    /\ dv_alone = FALSE
    /\ dv_calls = <<>>

\* No device is attached and nothing has been looked up
DetFresh ==
    /\ usb_devices = <<>>
    /\ det_op = [name |-> "none", arg |-> <<>>]
    /\ det_result = <<>>

\* No descriptor has been built
CtFresh == ct_built = [ctor |-> "none", args |-> <<>>, transfer |-> <<>>]

\* No volume helper has been called
VhFresh == vh_call = [name |-> "none", arg |-> 0, result |-> <<>>]

\* No FCP message has been encoded or decoded
MsgFresh == msg_call = [name |-> "none", arg |-> <<>>, bytes |-> <<>>,
                        result |-> [kind |-> "none", val |-> <<>>]]

ExtFresh ==
    /\ TrFresh
    /\ fw_file = <<>>
    /\ FwNothingParsed
    /\ DevFresh
    /\ DvDetached
    /\ DetFresh
    /\ CtFresh
    /\ VhFresh
    /\ MsgFresh

Init ==
    /\ interface_num \in InterfaceNums
    /\ overflow_checks \in BOOLEAN
    /\ FcpFresh \/ FcpNearWrap
    /\ S2Fresh
    /\ MonFresh
    /\ ExtFresh

Next ==
    \/ FcpInit
    \/ FcpReadMeters
    \/ FcpReadMixInfo
    \/ FcpReadData
    \/ FcpWriteData
    \/ FcpGetVolume
    \/ FcpSetVolume
    \/ FcpAdjustVolume
    \/ FcpGetMute
    \/ FcpSetMute
    \/ FcpToggleMute
    \/ FcpCallerTakesResult

Spec == Init /\ [][Next]_vars

\* send_command alone, on the sessions of Init
NextSendCommand ==
    \/ FcpSendCommand
    \/ FcpCallerTakesResult

SpecSendCommand == Init /\ [][NextSendCommand]_vars

-----------------------------------------------------------------------------
(* The FCP session on a device that stores what is written.  The device    *)
(* answers a DataRead with the bytes of its configuration space and        *)
(* applies a DataWrite to it.  FcpProtocol's methods take &mut self, so    *)
(* the session runs one call at a time; the device has other users (its    *)
(* front panel, another program), which write to it between any two        *)
(* transfers, those of one adjust_volume or toggle_mute call included.     *)

\* Addresses of the volume of output i (16 bits) and of its mute switch
VolumeAddr(i) == LINE_OUT_VOLUME_OFFSET + i * 2
MuteAddr(i)   == MUTE_SWITCH_OFFSET + i
DeviceAddrs   == UNION { {VolumeAddr(i), VolumeAddr(i) + 1, MuteAddr(i)} :
                         i \in OutputIndices }

\* The 16-bit value at the volume address of output i
RawVolume(mem, i) == mem[VolumeAddr(i)] + 256 * mem[VolumeAddr(i) + 1]

\* Fields of a DataRead / DataWrite request (after the 16-byte envelope:
\* u32 offset, u32 size, then the value bytes of a write)
RequestOffset(request) == u16_from_le_bytes(SubSeq(request, 17, 18))
RequestSize(request)   == u16_from_le_bytes(SubSeq(request, 21, 22))
RequestValue(request)  == SubSeq(request, 25, Len(request))

\* The device's answer to a read of `size` bytes at `offset`
DeviceAnswer(mem, offset, size) ==
    [out_ok |-> TRUE, in_ok |-> TRUE, len |-> "full",
     fill |-> [k \in 1..size |-> mem[offset + k - 1]], hdr |-> "echo"]

\* The device's answer to a write
DeviceAck ==
    [out_ok |-> TRUE, in_ok |-> TRUE, len |-> "none", fill |-> <<0>>, hdr |-> "echo"]

\* Every answer the device can give to a read
DeviceAnswers(mem) ==
    { DeviceAnswer(mem, offset, size) :
        offset \in { a \in DeviceAddrs : a + 1 \in DeviceAddrs } \cup DeviceAddrs,
        size \in {1} } \cup
    { DeviceAnswer(mem, VolumeAddr(i), 2) : i \in OutputIndices }

\* x carries a DataRead request
XferIsRead(x) ==
    u32_from_le_bytes(SubSeq(x.data, 1, 4))
        = <<FcpOpcode_DataRead \div 65536, FcpOpcode_DataRead % 65536>>

\* reply is the device's answer to the DataRead request x
AnswersRead(mem, x, reply) ==
    /\ x.dir = "out"
    /\ XferIsRead(x)
    /\ reply = DeviceAnswer(mem, RequestOffset(x.data), RequestSize(x.data))

\* The configuration space after the device has applied the write request
DeviceApply(mem, request) ==
    LET offset == RequestOffset(request)
        size   == RequestSize(request)
        value  == RequestValue(request)
    IN  [a \in DOMAIN mem |->
            IF a >= offset /\ a < offset + size THEN value[a - offset + 1]
            ELSE mem[a]]

\* The volume field of the output in play holds what it held before
VolumeWritten(mem_after) ==
    \E a \in {VolumeAddr(dv_output), VolumeAddr(dv_output) + 1} :
        mem_after[a] # device_mem[a]

\* The last command the session may issue on the device (2 = the handshake)
DeviceCommandLimit ==
    2 + (IF dv_alone THEN MaxAloneCommands ELSE MaxDeviceCommands)

DvIdle == Idle /\ dv_pending.name = "none"

\* Values another actor gives to a volume field and to a mute switch
OtherVolumes == {0, 100}
OtherMutes   == {0, 1}

\* What the device holds for the output in play, as its user sees it
DeviceHolds(mem) ==
    [db |-> RawVolume(mem, dv_output) - VOLUME_BIAS,
     muted |-> mem[MuteAddr(dv_output)] # 0]

\* The call that returns is added to the history of a session that is the
\* device's only user
Logged(name, arg, res) ==
    dv_calls' = IF dv_alone
                THEN Append(dv_calls, [name |-> name, arg |-> arg, res |-> res,
                                       before |-> DeviceHolds(device_mem)])
                ELSE dv_calls

\* What the transport may do to the read of a call so that the read fails:
\* the OUT or the IN transfer fails, or fewer bytes arrive than were asked
FailedReads ==
    { r \in Replies : \/ ~r.out_ok
                      \/ ~r.in_ok
                      \/ r.len = "short" }

DvGetVolume ==
    /\ DvIdle
    /\ \E reply \in DeviceAnswers(device_mem) :
        \E r \in {get_volume(Session, dv_output, reply)} :
            /\ AnswersRead(device_mem, r.s.xfers[1], reply)
            /\ Called(DeviceCommandLimit, "get_volume", <<dv_output>>, r)
            /\ Logged("get_volume", 0, r.res)
    /\ UNCHANGED <<device_mem, dv_output, dv_held, dv_last_set, dv_pending, dv_other,
                   dv_alone,
                   s2_vars, mon_vars, det_vars, ct_vars, vh_vars, msg_vars, tr_vars, fw_vars, dev_vars>>

\* The caller sets the volume it holds
DvSetVolume ==
    /\ DvIdle
    /\ \E r \in {set_volume(Session, dv_output, dv_held.db, DeviceAck)} :
        /\ Called(DeviceCommandLimit, "set_volume", <<dv_output, dv_held.db>>, r)
        /\ device_mem' = DeviceApply(device_mem, r.s.xfers[1].data)
        /\ Logged("set_volume", dv_held.db, r.res)
    /\ dv_last_set' = [db |-> dv_held.db, current |-> TRUE]
    /\ UNCHANGED <<dv_output, dv_held, dv_pending, dv_other, dv_alone,
                   s2_vars, mon_vars, det_vars, ct_vars, vh_vars, msg_vars, tr_vars, fw_vars, dev_vars>>

\* adjust_volume up to the answer to its read: the session's fields change
\* when the call returns
DvAdjustVolumeReads ==
    /\ DvIdle
    /\ issued + 2 <= DeviceCommandLimit
    /\ \E delta \in DeltasDb, reply \in DeviceAnswers(device_mem) :
        /\ AnswersRead(device_mem,
                       adjust_volume(Session, dv_output, delta,
                                     <<reply, DeviceAck>>).s.xfers[1], reply)
        /\ dv_pending' = [name |-> "adjust_volume", arg |-> delta, reply |-> reply]
    /\ UNCHANGED <<device_mem, dv_output, dv_held, dv_last_set, dv_other, dv_alone, dv_calls,
                   fcp_vars, s2_vars, mon_vars, det_vars, ct_vars, vh_vars, msg_vars, tr_vars, fw_vars, dev_vars>>

\* adjust_volume from its write to its return
DvAdjustVolumeWrites ==
    /\ dv_pending.name = "adjust_volume"
    /\ \E r \in {adjust_volume(Session, dv_output, dv_pending.arg,
                               <<dv_pending.reply, DeviceAck>>)} :
        /\ Called(DeviceCommandLimit, "adjust_volume", <<dv_output, dv_pending.arg>>, r)
        /\ device_mem' = DeviceApply(device_mem, r.s.xfers[3].data)
        /\ dv_last_set' = [db |-> r.res.val, current |-> TRUE]
        /\ Logged("adjust_volume", dv_pending.arg, r.res)
    /\ dv_pending' = [name |-> "none"]
    /\ UNCHANGED <<dv_output, dv_held, dv_other, dv_alone,
                   s2_vars, mon_vars, det_vars, ct_vars, vh_vars, msg_vars, tr_vars, fw_vars, dev_vars>>

\* toggle_mute up to the answer to its read
DvToggleMuteReads ==
    /\ DvIdle
    /\ issued + 2 <= DeviceCommandLimit
    /\ \E reply \in DeviceAnswers(device_mem) :
        /\ AnswersRead(device_mem,
                       toggle_mute(Session, dv_output, <<reply, DeviceAck>>).s.xfers[1],
                       reply)
        /\ dv_pending' = [name |-> "toggle_mute", arg |-> 0, reply |-> reply]
    /\ UNCHANGED <<device_mem, dv_output, dv_held, dv_last_set, dv_other, dv_alone, dv_calls,
                   fcp_vars, s2_vars, mon_vars, det_vars, ct_vars, vh_vars, msg_vars, tr_vars, fw_vars, dev_vars>>

\* toggle_mute from its write to its return
DvToggleMuteWrites ==
    /\ dv_pending.name = "toggle_mute"
    /\ \E r \in {toggle_mute(Session, dv_output, <<dv_pending.reply, DeviceAck>>)} :
        /\ Called(DeviceCommandLimit, "toggle_mute", <<dv_output>>, r)
        /\ device_mem' = DeviceApply(device_mem, r.s.xfers[3].data)
        /\ Logged("toggle_mute", 0, r.res)
    /\ dv_pending' = [name |-> "none"]
    /\ UNCHANGED <<dv_output, dv_held, dv_last_set, dv_other, dv_alone,
                   s2_vars, mon_vars, det_vars, ct_vars, vh_vars, msg_vars, tr_vars, fw_vars, dev_vars>>

\* adjust_volume or toggle_mute whose read fails on the transport: the call
\* returns the error of the read; the device has not been written
DvReadFails ==
    /\ DvIdle
    /\ \E call \in { <<"adjust_volume", -10>>, <<"toggle_mute", 0>> },
          reply \in FailedReads :
        \E r \in { IF call[1] = "adjust_volume"
                   THEN adjust_volume(Session, dv_output, call[2], <<reply, DeviceAck>>)
                   ELSE toggle_mute(Session, dv_output, <<reply, DeviceAck>>) } :
            /\ ~IsOk(r)
            /\ Called(DeviceCommandLimit, call[1],
                      IF call[1] = "adjust_volume" THEN <<dv_output, call[2]>>
                      ELSE <<dv_output>>, r)
            /\ Logged(call[1], call[2], r.res)
    /\ UNCHANGED <<device_mem, dv_output, dv_held, dv_last_set, dv_pending, dv_other,
                   dv_alone, s2_vars, mon_vars, det_vars, ct_vars, vh_vars, msg_vars, tr_vars,
                   fw_vars, dev_vars>>

\* Another user of the device changes the volume or the mute switch of the
\* output in play
DvOtherActorWrites ==
    /\ device_mem # <<>>
    /\ \E w \in { [addr |-> VolumeAddr(dv_output), bytes |-> u16_to_le_bytes(v)] :
                    v \in OtherVolumes }
             \cup { [addr |-> MuteAddr(dv_output), bytes |-> <<m>>] : m \in OtherMutes } :
        \E mem \in { [a \in DOMAIN device_mem |->
                        IF a >= w.addr /\ a < w.addr + Len(w.bytes)
                        THEN w.bytes[a - w.addr + 1] ELSE device_mem[a]] } :
            /\ mem # device_mem
            /\ device_mem' = mem
            /\ dv_other' = IF dv_pending.name # "none" THEN w ELSE dv_other
            /\ dv_held' = IF VolumeWritten(mem) THEN [dv_held EXCEPT !.current = FALSE]
                          ELSE dv_held
            /\ dv_last_set' = IF VolumeWritten(mem)
                              THEN [dv_last_set EXCEPT !.current = FALSE]
                              ELSE dv_last_set
    /\ UNCHANGED <<dv_output, dv_pending, dv_alone, dv_calls,
                   fcp_vars, s2_vars, mon_vars, det_vars, ct_vars, vh_vars, msg_vars, tr_vars, fw_vars, dev_vars>>

\* The caller takes the value returned; a volume read becomes the volume it
\* holds
DvCallerTakesResult ==
    /\ ~Idle
    /\ result.kind # "panic"
    /\ last_op' = [name |-> "none", args |-> <<>>]
    /\ was_initialized' = initialized
    /\ xfers' = <<>>
    /\ result' = [kind |-> "none", val |-> <<>>]
    /\ dv_other' = [addr |-> 0, bytes |-> <<>>]
    /\ dv_held' = IF last_op.name = "get_volume" /\ result.kind = "ok"
                  THEN [db |-> result.val,
                        current |-> RawVolume(device_mem, dv_output)
                                        = u16_from_le_bytes(SubSeq(xfers[2].data, 17, 18))]
                  ELSE dv_held
    /\ UNCHANGED <<initialized, seq_num, interface_num, overflow_checks, issued,
                   ever_ready, device_mem, dv_output, dv_last_set, dv_pending,
                   dv_alone, dv_calls,
                   s2_vars, mon_vars, det_vars, ct_vars, vh_vars, msg_vars, tr_vars, fw_vars, dev_vars>>

\* A session whose handshake has succeeded (two commands), nothing called
\* since
FcpReady ==
    /\ initialized = TRUE
    /\ seq_num = 2
    /\ issued = 2
    /\ ever_ready = TRUE
    /\ last_op = [name |-> "none", args |-> <<>>]
    /\ was_initialized = TRUE
    /\ xfers = <<>>
    /\ result = [kind |-> "none", val |-> <<>>]

\* Volumes in dB a caller asks for
CallerVolumesDb == (-130 .. 3) \cup {-200, 100}

\* Configuration spaces with the volume of output i at raw and its mute
\* switch at m; the other outputs at 0 dB, not muted
DeviceMemory(i, raw, m) ==
    [a \in DeviceAddrs |->
        IF a = VolumeAddr(i) THEN raw % 256
        ELSE IF a = VolumeAddr(i) + 1 THEN raw \div 256
        ELSE IF a = MuteAddr(i) THEN m
        ELSE IF \E j \in OutputIndices : a = VolumeAddr(j) THEN VOLUME_BIAS
        ELSE 0]

\* A ready session on a device
DeviceAttached ==
    /\ interface_num = 0
    /\ overflow_checks = TRUE
    /\ FcpReady
    /\ S2Fresh
    /\ MonFresh
    /\ TrFresh
    /\ fw_file = <<>>
    /\ FwNothingParsed
    /\ DevFresh
    /\ dv_output \in OutputIndices
    /\ \E raw \in 0..VOLUME_BIAS, m \in {0, 1}, db \in CallerVolumesDb :
        /\ \/ m = 0 /\ db = 0
           \/ raw = VOLUME_BIAS /\ m = 0
           \/ raw = VOLUME_BIAS /\ db = 0
        /\ device_mem = DeviceMemory(dv_output, raw, m)
        /\ dv_held = [db |-> db, current |-> FALSE]
    /\ dv_last_set = [db |-> 0, current |-> FALSE]
    /\ dv_pending = [name |-> "none"]
    /\ dv_other = [addr |-> 0, bytes |-> <<>>]
    /\ dv_calls = <<>>
    /\ DetFresh
    /\ CtFresh
    /\ VhFresh
    /\ MsgFresh

\* The device has other users
InitDevice ==
    /\ DeviceAttached
    /\ dv_alone = FALSE

NextDevice ==
    \/ DvGetVolume
    \/ DvSetVolume
    \/ DvAdjustVolumeReads
    \/ DvAdjustVolumeWrites
    \/ DvToggleMuteReads
    \/ DvToggleMuteWrites
    \/ DvOtherActorWrites
    \/ DvCallerTakesResult

SpecDevice == InitDevice /\ [][NextDevice]_vars

\* Volumes the device holds when its only user starts: both ends, within
\* one step of DeltasDb of each end, and the middle
AloneRawVolumes == {0, 5, 64, 120, VOLUME_BIAS}

\* The session is the only user of the device; the transport may fail the
\* read of a call
InitDeviceAlone ==
    /\ DeviceAttached
    /\ RawVolume(device_mem, dv_output) \in AloneRawVolumes
    /\ dv_held.db \in {-20, 0}
    /\ dv_alone = TRUE

NextDeviceAlone ==
    \/ DvGetVolume
    \/ DvSetVolume
    \/ DvAdjustVolumeReads
    \/ DvAdjustVolumeWrites
    \/ DvToggleMuteReads
    \/ DvToggleMuteWrites
    \/ DvReadFails
    \/ DvCallerTakesResult

SpecDeviceAlone == InitDeviceAlone /\ [][NextDeviceAlone]_vars

\* The configuration space as set_volume and set_mute address it.  The
\* output index is a u8 and neither method checks it against the number of
\* outputs of the device: every index in 0..255 is accepted.
U8Indices == 0 .. 255

\* Every address a volume or a mute field of some index occupies
ConfigAddrs ==
    UNION { {VolumeAddr(i), VolumeAddr(i) + 1, MuteAddr(i)} : i \in U8Indices }

\* Indices the calls are made with: the first outputs, those around the
\* index whose volume field starts at MUTE_SWITCH_OFFSET, and the last
LayoutIndices == {0, 1, 2, 19, 20, 21, 128, 255}

LySetVolume ==
    /\ DvIdle
    /\ \E i \in LayoutIndices, db \in {-VOLUME_BIAS, -6, 0} :
        \E r \in {set_volume(Session, i, db, DeviceAck)} :
            /\ Called(DeviceCommandLimit, "set_volume", <<i, db>>, r)
            /\ device_mem' = DeviceApply(device_mem, r.s.xfers[1].data)
    /\ UNCHANGED <<dv_output, dv_held, dv_last_set, dv_pending, dv_other, dv_alone,
                   dv_calls, s2_vars, mon_vars, det_vars, ct_vars, vh_vars, msg_vars, tr_vars,
                   fw_vars, dev_vars>>

LySetMute ==
    /\ DvIdle
    /\ \E i \in LayoutIndices, muted \in BOOLEAN :
        \E r \in {set_mute(Session, i, muted, DeviceAck)} :
            /\ Called(DeviceCommandLimit, "set_mute", <<i, IF muted THEN 1 ELSE 0>>, r)
            /\ device_mem' = DeviceApply(device_mem, r.s.xfers[1].data)
    /\ UNCHANGED <<dv_output, dv_held, dv_last_set, dv_pending, dv_other, dv_alone,
                   dv_calls, s2_vars, mon_vars, det_vars, ct_vars, vh_vars, msg_vars, tr_vars,
                   fw_vars, dev_vars>>

\* A ready session on a device whose configuration space holds zeroes, or
\* ones in the bytes from MUTE_SWITCH_OFFSET on
InitLayout ==
    /\ interface_num = 0
    /\ overflow_checks = TRUE
    /\ FcpReady
    /\ S2Fresh
    /\ MonFresh
    /\ TrFresh
    /\ fw_file = <<>>
    /\ FwNothingParsed
    /\ DevFresh
    /\ dv_output = 0
    /\ \E m \in {0, 1} :
        device_mem = [a \in ConfigAddrs |-> IF a >= MUTE_SWITCH_OFFSET THEN m ELSE 0]
    /\ dv_held = [db |-> 0, current |-> FALSE]
    /\ dv_last_set = [db |-> 0, current |-> FALSE]
    /\ dv_pending = [name |-> "none"]
    /\ dv_other = [addr |-> 0, bytes |-> <<>>]
    /\ dv_alone = FALSE
    /\ dv_calls = <<>>
    /\ DetFresh
    /\ CtFresh
    /\ VhFresh
    /\ MsgFresh

NextLayout ==
    \/ LySetVolume
    \/ LySetMute
    \/ DvCallerTakesResult

SpecLayout == InitLayout /\ [][NextLayout]_vars

-----------------------------------------------------------------------------
(* Scarlett2Protocol (Gen 2/3) *)

SCARLETT2_USB_CMD_INIT == 0
SCARLETT2_USB_CMD_REQ  == 2
SCARLETT2_USB_CMD_RESP == 3

\* Scarlett2Command
Scarlett2Command_GetMeterLevels == 4097
Scarlett2Command_GetMixer       == 12289
Scarlett2Command_SetMixer       == 12290

\* The length control_read is asked for in send_command
S2_READ_LENGTH == 1024

\* An increment that stops at 255 instead of wrapping
saturating_add_1(x) == IF x = 255 THEN 255 ELSE x + 1

\* u8::wrapping_add(1)
wrapping_add_1(x) == (x + 1) % 256

\* send_command accepting a response whatever sequence it echoes
s2_send_command_no_seq_check(seq, cmd, data, response) ==
    LET new_seq == wrapping_add_1(seq)
        request == <<SCARLETT2_USB_CMD_REQ, new_seq>> \o u16_to_le_bytes(cmd)
                       \o u16_to_le_bytes(Len(data) % 65536) \o data
        out(kind, val) == [sequence |-> new_seq, written |-> <<request>>,
                           res |-> [kind |-> kind, val |-> val]]
        payload_len == u16_from_le_bytes(SubSeq(response, 3, 4))
    IN  IF Len(response) < 4 THEN out("protocol", <<>>)
        ELSE IF response[1] # SCARLETT2_USB_CMD_RESP THEN out("protocol", <<>>)
        ELSE IF Len(response) < 4 + payload_len THEN out("protocol", <<>>)
        ELSE out("ok", SubSeq(response, 5, 4 + payload_len))

\* Scarlett2Protocol::send_command, given what control_read returns.
\* control_write is a placeholder that always returns Ok(()); the buffer it
\* is given is recorded.
s2_send_command(seq, cmd, data, response) ==
    LET new_seq == wrapping_add_1(seq)
        request == <<SCARLETT2_USB_CMD_REQ, new_seq>> \o u16_to_le_bytes(cmd)
                       \o u16_to_le_bytes(Len(data) % 65536) \o data
        out(kind, val) == [sequence |-> new_seq, written |-> <<request>>,
                           res |-> [kind |-> kind, val |-> val]]
        payload_len == u16_from_le_bytes(SubSeq(response, 3, 4))
    IN  IF Len(response) < 4 THEN out("protocol", <<>>)
        ELSE IF response[1] # SCARLETT2_USB_CMD_RESP THEN out("protocol", <<>>)
        ELSE IF response[2] # new_seq THEN out("protocol", <<>>)
        ELSE IF Len(response) < 4 + payload_len THEN out("protocol", <<>>)
        ELSE out("ok", SubSeq(response, 5, 4 + payload_len))

\* Scarlett2Protocol::init: one control_write of [INIT, 0]; the sequence
\* counter is not touched
s2_init(seq) ==
    [sequence |-> seq, written |-> << <<SCARLETT2_USB_CMD_INIT, 0>> >>,
     res |-> [kind |-> "ok", val |-> <<>>]]

\* What control_read may return to a send_command whose request carries seq.
\* The placeholder in the source returns the empty vector; the control-in
\* transfer it stands for returns what the device sent, here every
\* combination of command byte, echoed sequence, declared length and payload
\* below, and the responses shorter than the 4-byte header.
S2Payloads == { <<>>, <<7>>, <<7, 9>>, <<7, 9, 11>> }
S2Responses(seq) ==
    { <<>>, <<SCARLETT2_USB_CMD_RESP>>, <<SCARLETT2_USB_CMD_RESP, seq>>,
      <<SCARLETT2_USB_CMD_RESP, seq, 0>> }
    \cup { <<c, e>> \o u16_to_le_bytes(l) \o pl :
             c \in {SCARLETT2_USB_CMD_RESP, SCARLETT2_USB_CMD_REQ, SCARLETT2_USB_CMD_INIT},
             e \in {seq, (seq + 1) % 256, (seq + 255) % 256},
             l \in {0, 1, 2, 3, 258},
             pl \in S2Payloads }

\* Commands the callers send (get_meter_levels, get_mixer_volume,
\* set_mixer_volume build these)
S2Calls ==
    { [cmd |-> Scarlett2Command_GetMeterLevels, data |-> <<>>],
      [cmd |-> Scarlett2Command_GetMixer, data |-> u16_to_le_bytes(1)],
      [cmd |-> Scarlett2Command_SetMixer,
       data |-> u16_to_le_bytes(1) \o u16_to_le_bytes(32768)] }

S2Idle == s2_op.name = "none"

S2Returns(name, call, response, ret) ==
    \E r \in {ret} :
    /\ sequence' = r.sequence
    /\ s2_op' = [name |-> name, cmd |-> call.cmd, data |-> call.data]
    /\ s2_written' = r.written
    /\ s2_response' = response
    /\ s2_result' = r.res
    /\ UNCHANGED <<fcp_vars, mon_vars, ext_vars>>

S2SendCommand ==
    /\ S2Idle
    /\ s2_issued < MaxS2Commands
    /\ s2_issued' = s2_issued + 1
    /\ \E call \in S2Calls, response \in S2Responses(wrapping_add_1(sequence)) :
        /\ Len(response) <= S2_READ_LENGTH
        /\ S2Returns("send_command", call, response,
                     s2_send_command(sequence, call.cmd, call.data, response))

S2Init ==
    /\ S2Idle
    /\ s2_issued' = s2_issued
    /\ S2Returns("init", [cmd |-> 0, data |-> <<>>], <<>>, s2_init(sequence))

S2CallerTakesResult ==
    /\ ~S2Idle
    /\ s2_op' = [name |-> "none", cmd |-> 0, data |-> <<>>]
    /\ s2_written' = <<>>
    /\ s2_response' = <<>>
    /\ s2_result' = [kind |-> "none", val |-> <<>>]
    /\ UNCHANGED <<sequence, s2_issued, fcp_vars, mon_vars, ext_vars>>

InitScarlett2 ==
    /\ interface_num = 0
    /\ overflow_checks \in BOOLEAN
    /\ FcpFresh
    /\ S2Fresh
    /\ MonFresh
    /\ ExtFresh

NextScarlett2 ==
    \/ S2SendCommand
    \/ S2Init
    \/ S2CallerTakesResult

SpecScarlett2 == InitScarlett2 /\ [][NextScarlett2]_vars

-----------------------------------------------------------------------------
(* Hotplug monitor: the task spawned by DeviceDetector::start_monitoring *)

\* DeviceInfo::new
DeviceInfo_new(model, serial_number, usb_path) ==
    [model |-> model, serial_number |-> serial_number,
     firmware_version |-> "None", usb_path |-> usb_path]

\* Devices a scan may report.  The path token is "usb-{bus:03}-{address:03}";
\* the first and the third are two units seen at the same bus address, the
\* first and the second have the same serial, the third and the fourth too,
\* the fifth is another model seen at the address of the first.
KnownDevices ==
    { DeviceInfo_new("Scarlett18i20Gen4", "Unknown", "usb-001-002"),
      DeviceInfo_new("Scarlett2i2Gen3", "Unknown", "usb-001-003"),
      DeviceInfo_new("Scarlett18i20Gen4", "S18I20", "usb-001-002"),
      DeviceInfo_new("Scarlett18i20Gen4", "S18I20", "usb-002-001"),
      DeviceInfo_new("Scarlett2i2Gen3", "S2I2", "usb-001-002") }

Paths(devices) == { devices[i].usb_path : i \in 1..Len(devices) }

\* Results of scan_devices_internal: an enumeration error, or the devices
\* (here up to two) in enumeration order, no two at the same bus address
ScanOutcomes ==
    { [ok |-> FALSE, devices |-> <<>>] }
    \cup { [ok |-> TRUE, devices |-> <<>>] }
    \cup { [ok |-> TRUE, devices |-> <<d>>] : d \in KnownDevices }
    \cup { [ok |-> TRUE, devices |-> <<pair[1], pair[2]>>] :
             pair \in { q \in KnownDevices \X KnownDevices :
                          q[1].usb_path # q[2].usb_path } }

HotplugEvent_Connected(info)    == [kind |-> "Connected", info |-> info, path |-> info.usb_path]
HotplugEvent_Disconnected(path) == [kind |-> "Disconnected", info |-> "None", path |-> path]

\* The first loop comparing serial numbers instead of paths
RECURSIVE new_device_events_by_serial(_, _)
new_device_events_by_serial(current, devices) ==
    IF devices = <<>> THEN <<>>
    ELSE (IF Head(devices).serial_number
                \notin { current[i].serial_number : i \in 1..Len(current) }
          THEN <<HotplugEvent_Connected(Head(devices))>> ELSE <<>>)
         \o new_device_events_by_serial(current, Tail(devices))

\* The first loop comparing whole device records instead of paths
RECURSIVE new_device_events_by_record(_, _)
new_device_events_by_record(current, devices) ==
    IF devices = <<>> THEN <<>>
    ELSE (IF Head(devices) \notin { current[i] : i \in 1..Len(current) }
          THEN <<HotplugEvent_Connected(Head(devices))>> ELSE <<>>)
         \o new_device_events_by_record(current, Tail(devices))

\* The first loop of a tick: a Connected for each scanned device whose path
\* is not in the snapshot, in scan order
RECURSIVE new_device_events(_, _)
new_device_events(current, devices) ==
    IF devices = <<>> THEN <<>>
    ELSE (IF Head(devices).usb_path \notin Paths(current)
          THEN <<HotplugEvent_Connected(Head(devices))>> ELSE <<>>)
         \o new_device_events(current, Tail(devices))

\* The second loop with no test: a Disconnected for every snapshot device
RECURSIVE removed_device_events_every(_, _)
removed_device_events_every(current, devices) ==
    IF current = <<>> THEN <<>>
    ELSE <<HotplugEvent_Disconnected(Head(current).usb_path)>>
         \o removed_device_events_every(Tail(current), devices)

\* The second loop of a tick: a Disconnected for each snapshot device whose
\* path is not in the scan, in snapshot order
RECURSIVE removed_device_events(_, _)
removed_device_events(current, devices) ==
    IF current = <<>> THEN <<>>
    ELSE (IF Head(current).usb_path \notin Paths(devices)
          THEN <<HotplugEvent_Disconnected(Head(current).usb_path)>> ELSE <<>>)
         \o removed_device_events(Tail(current), devices)

\* The two loops in the other order
tick_events_removed_first(current, devices) ==
    removed_device_events(current, devices) \o new_device_events(current, devices)

\* The events one iteration of the loop sends, in the order it sends them
tick_events(current, devices) ==
    new_device_events(current, devices) \o removed_device_events(current, devices)

\* The snapshot replaced by whatever the scan produced, also on an error
snapshot_cleared_on_error(current, scan) == scan.devices

\* The snapshot after an iteration: a failed scan `continue`s before the
\* assignment, a successful one replaces the snapshot
snapshot_after(current, scan) == IF scan.ok THEN scan.devices ELSE current

\* Events stamped with the tick that sent them
Stamp(events, n) == [i \in 1..Len(events) |-> [tick |-> n, event |-> events[i]]]

\* One iteration of the monitor loop
MonTick ==
    /\ ticks < MaxTicks
    /\ \E scan \in ScanOutcomes :
        LET events == IF scan.ok THEN tick_events(current_devices, scan.devices)
                      ELSE <<>>
        IN  /\ ticks' = ticks + 1
            /\ scans' = Append(scans, scan)
            /\ channel' = channel \o Stamp(events, ticks + 1)
            /\ sent' = sent \o Stamp(events, ticks + 1)
            /\ current_devices' = snapshot_after(current_devices, scan)
            /\ tick_log' = [before |-> current_devices, scan |-> scan,
                            events |-> events]
            /\ UNCHANGED <<received, fcp_vars, s2_vars, ext_vars>>

\* hotplug_rx.recv(): the receiver takes the oldest event in the channel
MonRecv ==
    /\ channel # <<>>
    /\ received' = Append(received, Head(channel))
    /\ channel' = Tail(channel)
    /\ UNCHANGED <<current_devices, sent, ticks, scans, tick_log, fcp_vars, s2_vars, ext_vars>>

InitMonitor ==
    /\ interface_num = 0
    /\ overflow_checks = FALSE
    /\ FcpFresh
    /\ S2Fresh
    /\ MonFresh
    /\ ExtFresh

NextMonitor ==
    \/ MonTick
    \/ MonRecv

SpecMonitor == InitMonitor /\ [][NextMonitor]_vars

-----------------------------------------------------------------------------
(* DirectUsbTransport: one call of the transport, from the caller's task *)

\* ControlTransfer::with_timeout
with_timeout(transfer, timeout_ms) == [transfer EXCEPT !.timeout_ms = timeout_ms]

vendor_out(request, value, index) == ControlTransfer_new(64, request, value, index, "Out")
\* vendor_in with the request type of vendor_out
vendor_in_host_to_device(request, value, index) ==
    ControlTransfer_new(64, request, value, index, "In")
vendor_in(request, value, index)  == ControlTransfer_new(192, request, value, index, "In")

\* (transfer.request_type >> 5) & 0x03 and transfer.request_type & 0x1F
ControlTypeBits(request_type) == (request_type \div 32) % 4
RecipientBits(request_type)   == request_type % 32

\* RequestTypeError taking every recipient value for a recipient
RequestTypeError_any_recipient(transfer) ==
    IF ControlTypeBits(transfer.request_type) = 3 THEN "Invalid control type"
    ELSE "none"

\* The match on the control type and on the recipient at the head of
\* control_out / control_in: the error returned, or "none"
RequestTypeError(transfer) ==
    IF ControlTypeBits(transfer.request_type) = 3 THEN "Invalid control type"
    ELSE IF RecipientBits(transfer.request_type) > 3 THEN "Invalid recipient"
    ELSE "none"

\* The arms of the two matches that build a request
control_type_of(request_type) ==
    CASE ControlTypeBits(request_type) = 0 -> "Standard"
      [] ControlTypeBits(request_type) = 1 -> "Class"
      [] ControlTypeBits(request_type) = 2 -> "Vendor"
      [] OTHER -> "none"
recipient_of(request_type) ==
    CASE RecipientBits(request_type) = 0 -> "Device"
      [] RecipientBits(request_type) = 1 -> "Interface"
      [] RecipientBits(request_type) = 2 -> "Endpoint"
      [] RecipientBits(request_type) = 3 -> "Other"
      [] OTHER -> "none"

\* nusb::transfer::ControlOut / ControlIn as control_out / control_in fill
\* it: the data of an OUT and the length of an IN are len bytes
NusbControl(transfer, len) ==
    [control_type |-> control_type_of(transfer.request_type),
     recipient |-> recipient_of(transfer.request_type),
     request |-> transfer.request, value |-> transfer.value,
     index |-> transfer.index, length |-> len % 65536]

\* What control_out / control_in return once block_on has returned the
\* completion: the status mapped to Error::Usb, or the number of bytes
control_out_result(len, completion) ==
    IF completion.status = "error" THEN [kind |-> "usb", val |-> 0]
    ELSE [kind |-> "ok", val |-> len]
control_in_result(len, completion) ==
    IF completion.status = "error" THEN [kind |-> "usb", val |-> 0]
    ELSE [kind |-> "ok", val |-> IF completion.len < len THEN completion.len ELSE len]

\* bulk_out / bulk_in
bulk_result == [kind |-> "not_supported", val |-> 0]

\* Descriptors the callers build and the timeouts they set
TimeoutsMs == {500, 3000}
TrDescriptors ==
    LET made == { class_out(2, 0, 0), class_in(3, 0, 0), vendor_out(0, 0, 0),
                  vendor_in(0, 0, 0),
                  ControlTransfer_new(96, 0, 0, 0, "Out"),
                  ControlTransfer_new(36, 0, 0, 0, "Out"),
                  ControlTransfer_new(128, 6, 256, 0, "In"),
                  ControlTransfer_new(2, 1, 0, 129, "Out"),
                  ControlTransfer_new(67, 9, 65535, 2, "Out"),
                  ControlTransfer_new(255, 7, 1, 1, "In") }
    IN  made \cup { with_timeout(t, ms) : t \in made, ms \in TimeoutsMs }
TrLengths == {0, 16}
BulkDescriptors ==
    { [endpoint |-> 1, direction |-> "Out", timeout_ms |-> 1000],
      [endpoint |-> 129, direction |-> "In", timeout_ms |-> 1000] }

\* What the device may complete a transfer with
Completions ==
    { [status |-> "error", len |-> 0] }
        \cup { [status |-> "ok", len |-> n] : n \in {0, 16, 40} }

\* A control transfer is called: a request type the match rejects returns at
\* once, any other is submitted and the task blocks in block_on
TrSubmit(op, transfer, len) ==
    /\ tr_call' = [op |-> op, transfer |-> transfer, len |-> len,
                   nusb |-> IF RequestTypeError(transfer) # "none"
                            THEN [control_type |-> "none"]
                            ELSE NusbControl(transfer, len)]
    /\ tr_elapsed_ms' = 0
    /\ tr_completion' = [status |-> "pending", len |-> 0]
    /\ IF RequestTypeError(transfer) # "none"
       THEN /\ tr_state' = "returned"
            /\ tr_result' = [kind |-> "usb", val |-> 0]
       ELSE /\ tr_state' = "blocked"
            /\ tr_result' = [kind |-> "none", val |-> 0]
    /\ UNCHANGED <<fcp_vars, s2_vars, mon_vars, det_vars, ct_vars, vh_vars, msg_vars, dv_vars, fw_vars, dev_vars>>

TrControlOut ==
    /\ tr_state = "idle"
    /\ \E transfer \in TrDescriptors, len \in TrLengths :
        TrSubmit("control_out", transfer, len)

TrControlIn ==
    /\ tr_state = "idle"
    /\ \E transfer \in TrDescriptors, len \in TrLengths :
        TrSubmit("control_in", transfer, len)

\* bulk_out / bulk_in return without submitting anything
TrBulk ==
    /\ tr_state = "idle"
    /\ \E transfer \in BulkDescriptors, len \in TrLengths :
        tr_call' = [op |-> IF transfer.direction = "Out" THEN "bulk_out" ELSE "bulk_in",
                    transfer |-> transfer, len |-> len,
                    nusb |-> [control_type |-> "none"]]
    /\ tr_elapsed_ms' = 0
    /\ tr_completion' = [status |-> "pending", len |-> 0]
    /\ tr_state' = "returned"
    /\ tr_result' = bulk_result
    /\ UNCHANGED <<fcp_vars, s2_vars, mon_vars, det_vars, ct_vars, vh_vars, msg_vars, dv_vars, fw_vars, dev_vars>>

\* The device completes the submitted transfer, successfully or not.  Nothing
\* obliges it to: it may stall for ever.
TrDeviceCompletes ==
    /\ tr_state = "blocked"
    /\ tr_completion.status = "pending"
    /\ tr_completion' \in Completions
    /\ UNCHANGED <<tr_state, tr_call, tr_elapsed_ms, tr_result, fcp_vars, s2_vars,
                   mon_vars, det_vars, ct_vars, vh_vars, msg_vars, dv_vars, fw_vars, dev_vars>>

\* Time passes while the task is blocked.  The transfer's timeout is not
\* handed to the submitted transfer and no timer runs beside block_on: the
\* passing of time changes nothing but the clock.
TrTimePasses ==
    /\ tr_state = "blocked"
    /\ tr_elapsed_ms < MaxElapsedSecs * 1000
    /\ tr_elapsed_ms' = tr_elapsed_ms + 500
    /\ UNCHANGED <<tr_state, tr_call, tr_completion, tr_result, fcp_vars, s2_vars,
                   mon_vars, det_vars, ct_vars, vh_vars, msg_vars, dv_vars, fw_vars, dev_vars>>

\* block_on returns the completion and the method returns to its caller
TrBlockOnReturns ==
    /\ tr_state = "blocked"
    /\ tr_completion.status # "pending"
    /\ tr_state' = "returned"
    /\ tr_result' = IF tr_call.op = "control_out"
                    THEN control_out_result(tr_call.len, tr_completion)
                    ELSE control_in_result(tr_call.len, tr_completion)
    /\ UNCHANGED <<tr_call, tr_elapsed_ms, tr_completion, fcp_vars, s2_vars, mon_vars, det_vars, ct_vars, vh_vars, msg_vars, dv_vars,
                   fw_vars, dev_vars>>

TrCallerTakesResult ==
    /\ tr_state = "returned"
    /\ tr_state' = "idle"
    /\ tr_call' = [op |-> "none", transfer |-> [timeout_ms |-> 0], len |-> 0,
                   nusb |-> [control_type |-> "none"]]
    /\ tr_elapsed_ms' = 0
    /\ tr_completion' = [status |-> "pending", len |-> 0]
    /\ tr_result' = [kind |-> "none", val |-> 0]
    /\ UNCHANGED <<fcp_vars, s2_vars, mon_vars, det_vars, ct_vars, vh_vars, msg_vars, dv_vars, fw_vars, dev_vars>>

InitTransport ==
    /\ interface_num = 0
    /\ overflow_checks = FALSE
    /\ FcpFresh
    /\ S2Fresh
    /\ MonFresh
    /\ ExtFresh

NextTransport ==
    \/ TrControlOut
    \/ TrControlIn
    \/ TrBulk
    \/ TrDeviceCompletes
    \/ TrTimePasses
    \/ TrBlockOnReturns
    \/ TrCallerTakesResult

\* The task runs: block_on returns once the transfer has completed, and time
\* passes.  The device is under no such obligation.
SpecTransport ==
    /\ InitTransport
    /\ [][NextTransport]_vars
    /\ WF_vars(TrBlockOnReturns)
    /\ WF_vars(TrTimePasses)
    /\ WF_vars(TrCallerTakesResult)

-----------------------------------------------------------------------------
(* ControlTransfer: the descriptors the convenience constructors build *)

\* Arguments the constructors are called with (u8, u16, u16) and timeouts
\* in ms given to with_timeout
CtRequests   == {0, 1, 255}
CtValues     == {0, 4660, 65535}
CtIndexes    == {0, 22136, 65535}
CtTimeoutsMs == {0, 500, 1000, 3000}
CtConstructors == {"vendor_out", "vendor_in", "class_out", "class_in"}

Built(ctor, args, transfer) == [ctor |-> ctor, args |-> args, transfer |-> transfer]

\* Building a descriptor touches nothing else
CtFrame ==
    UNCHANGED <<fcp_vars, s2_vars, mon_vars, tr_vars, fw_vars, dev_vars,
                dv_vars, det_vars, vh_vars, msg_vars>>

CtVendorOut ==
    /\ \E request \in CtRequests, value \in CtValues, index \in CtIndexes :
        ct_built' = Built("vendor_out", <<request, value, index>>,
                          vendor_out(request, value, index))
    /\ CtFrame

CtVendorIn ==
    /\ \E request \in CtRequests, value \in CtValues, index \in CtIndexes :
        ct_built' = Built("vendor_in", <<request, value, index>>,
                          vendor_in(request, value, index))
    /\ CtFrame

CtClassOut ==
    /\ \E request \in CtRequests, value \in CtValues, index \in CtIndexes :
        ct_built' = Built("class_out", <<request, value, index>>,
                          class_out(request, value, index))
    /\ CtFrame

CtClassIn ==
    /\ \E request \in CtRequests, value \in CtValues, index \in CtIndexes :
        ct_built' = Built("class_in", <<request, value, index>>,
                          class_in(request, value, index))
    /\ CtFrame

\* with_timeout consumes a descriptor already built and returns it
CtWithTimeout ==
    /\ ct_built.ctor # "none"
    /\ \E ms \in CtTimeoutsMs :
        ct_built' = Built("with_timeout", <<ct_built.transfer, ms>>,
                          with_timeout(ct_built.transfer, ms))
    /\ CtFrame

InitDescriptor ==
    /\ interface_num = 0
    /\ overflow_checks = FALSE
    /\ FcpFresh
    /\ S2Fresh
    /\ MonFresh
    /\ ExtFresh

NextDescriptor ==
    \/ CtVendorOut
    \/ CtVendorIn
    \/ CtClassOut
    \/ CtClassIn
    \/ CtWithTimeout

SpecDescriptor == InitDescriptor /\ [][NextDescriptor]_vars

-----------------------------------------------------------------------------
(* Scarlett2 volume helpers: db_to_mixer_volume and mixer_volume_to_db      *)

\* An f32 number of dB is an integer number of tenths of a dB.  powf and
\* log10 are not computed: 10^(db/20) is enclosed between the powers of ten
\* of the whole exponents around db/20 (equal when db is a multiple of
\* 20 dB), and a result is the interval [lo, hi] that encloses the value the
\* code computes, lo = hi when the model knows it exactly.
Exactly(v) == [lo |-> v, hi |-> v]

RECURSIVE Pow10(_)
Pow10(n) == IF n = 0 THEN 1 ELSE 10 * Pow10(n - 1)

\* The whole part of 10^k * 65535.0, k a whole exponent
Scaled(k) == IF k >= 0 THEN 65535 * Pow10(k) ELSE 65535 \div Pow10(-k)

\* f32::min on the whole parts
f32_min(x, limit) == IF x < limit THEN x ELSE limit

\* `as u16` of a float: the whole part, saturating at the ends of the type
as_u16(x) == IF x < 0 THEN 0 ELSE IF x > 65535 THEN 65535 ELSE x

\* The whole exponents around db / 20.0
ExponentBelow(db) == db \div 200
ExponentAbove(db) == IF db % 200 = 0 THEN db \div 200 ELSE (db \div 200) + 1

\* db_to_mixer_volume with .min(60000.0)
db_to_mixer_volume_min_60000(db) ==
    IF db <= -1270 THEN Exactly(0)
    ELSE [lo |-> as_u16(f32_min(Scaled(ExponentBelow(db)), 60000)),
          hi |-> as_u16(f32_min(Scaled(ExponentAbove(db)), 60000))]

\* db_to_mixer_volume(db: f32) -> u16
db_to_mixer_volume(db) ==
    IF db <= -1270 THEN Exactly(0)
    ELSE [lo |-> as_u16(f32_min(Scaled(ExponentBelow(db)), 65535)),
          hi |-> as_u16(f32_min(Scaled(ExponentAbove(db)), 65535))]

\* The whole exponent k with 10^k <= volume / 65535.0 < 10^(k+1), for a
\* volume in 1..65535
Decade(volume) ==
    IF volume >= 65535 THEN 0
    ELSE CHOOSE k \in -5 .. -1 :
            /\ volume > Scaled(k)
            /\ volume <= Scaled(k + 1)

\* mixer_volume_to_db(volume: u16) -> f32, in tenths of a dB
mixer_volume_to_db(volume) ==
    IF volume = 0 THEN Exactly(-1270)
    ELSE IF Decade(volume) = 0 THEN Exactly(0)
    ELSE [lo |-> 200 * Decade(volume), hi |-> 200 * (Decade(volume) + 1)]

\* dB values the helpers are called with, in tenths: around the floor,
\* around 0 dB, and every 2.5 dB from -140 dB to +45 dB
DbTenths ==
    (-1280 .. -1260) \cup (-10 .. 10) \cup { d \in -1400 .. 450 : d % 25 = 0 }

\* mixer values: the ends of the type and both sides of each decade
MixerVolumes ==
    {0, 1, 6, 7, 65, 66, 655, 656, 6553, 6554, 32768, 60000, 65534, 65535}

VhFrame ==
    UNCHANGED <<fcp_vars, s2_vars, mon_vars, tr_vars, fw_vars, dev_vars,
                dv_vars, det_vars, ct_vars, msg_vars>>

VhDbToMixerVolume ==
    /\ \E db \in DbTenths :
        vh_call' = [name |-> "db_to_mixer_volume", arg |-> db,
                    result |-> db_to_mixer_volume(db)]
    /\ VhFrame

VhMixerVolumeToDb ==
    /\ \E volume \in MixerVolumes :
        vh_call' = [name |-> "mixer_volume_to_db", arg |-> volume,
                    result |-> mixer_volume_to_db(volume)]
    /\ VhFrame

InitVolumeHelpers ==
    /\ interface_num = 0
    /\ overflow_checks = FALSE
    /\ FcpFresh
    /\ S2Fresh
    /\ MonFresh
    /\ ExtFresh

NextVolumeHelpers ==
    \/ VhDbToMixerVolume
    \/ VhMixerVolumeToDb

SpecVolumeHelpers == InitVolumeHelpers /\ [][NextVolumeHelpers]_vars

-----------------------------------------------------------------------------
(* FCP socket messages: FcpMessageHeader and FcpVersionMessage.  A u32 is   *)
(* kept as <<high half, low half>>, as u32_from_le_bytes gives it.           *)

FCP_PROTOCOL_VERSION == 1
FCP_MAGIC_REQUEST  == 83
FCP_MAGIC_RESPONSE == 115
\* MAX_PAYLOAD_LENGTH = 2 * 1024 * 1024, in halves
MAX_PAYLOAD_LENGTH == <<32, 0>>
FcpResponseType_Version == 0

\* a > b for two u32 in halves
U32Greater(a, b) == a[1] > b[1] \/ (a[1] = b[1] /\ a[2] > b[2])

\* u32::to_le_bytes
u32_halves_to_le_bytes(x) == u16_to_le_bytes(x[2]) \o u16_to_le_bytes(x[1])
\* u32::to_be_bytes
u32_halves_to_be_bytes(x) ==
    << x[1] \div 256, x[1] % 256, x[2] \div 256, x[2] % 256 >>

MsgOk(v)     == [kind |-> "ok", val |-> v]
MsgErr(text) == [kind |-> "protocol", val |-> text]

\* FcpMessageHeader::new_request / new_response
FcpMessageHeader_new_request(msg_type, payload_length) ==
    [magic |-> FCP_MAGIC_REQUEST, msg_type |-> msg_type,
     payload_length |-> payload_length]
FcpMessageHeader_new_response(msg_type, payload_length) ==
    [magic |-> FCP_MAGIC_RESPONSE, msg_type |-> msg_type,
     payload_length |-> payload_length]

\* to_bytes writing the length big-endian
FcpMessageHeader_to_bytes_be(h) ==
    <<h.magic, h.msg_type>> \o u32_halves_to_be_bytes(h.payload_length)

\* FcpMessageHeader::to_bytes
FcpMessageHeader_to_bytes(h) ==
    <<h.magic, h.msg_type>> \o u32_halves_to_le_bytes(h.payload_length)

\* FcpMessageHeader::from_bytes
FcpMessageHeader_from_bytes(bytes) ==
    IF Len(bytes) < 6 THEN MsgErr("Header too short")
    ELSE MsgOk([magic |-> bytes[1], msg_type |-> bytes[2],
                payload_length |-> u32_from_le_bytes(SubSeq(bytes, 3, 6))])

\* FcpMessageHeader::validate
FcpMessageHeader_validate(h) ==
    IF h.magic # FCP_MAGIC_REQUEST /\ h.magic # FCP_MAGIC_RESPONSE
    THEN MsgErr("Invalid magic byte")
    ELSE IF U32Greater(h.payload_length, MAX_PAYLOAD_LENGTH)
    THEN MsgErr("Payload too large")
    ELSE MsgOk(<<>>)

\* FcpVersionMessage::new / to_bytes / from_bytes
FcpVersionMessage_new(version) ==
    [header |-> FcpMessageHeader_new_response(FcpResponseType_Version, <<0, 1>>),
     version |-> version]
FcpVersionMessage_to_bytes(m) == Append(FcpMessageHeader_to_bytes(m.header), m.version)
FcpVersionMessage_from_bytes(bytes) ==
    IF Len(bytes) < 7 THEN MsgErr("Version message too short")
    ELSE LET header == FcpMessageHeader_from_bytes(SubSeq(bytes, 1, 6))
         IN  IF header.kind # "ok" THEN header
             ELSE IF FcpMessageHeader_validate(header.val).kind # "ok"
             THEN FcpMessageHeader_validate(header.val)
             ELSE MsgOk([header |-> header.val, version |-> bytes[7]])

\* Headers encoded: both magics and bytes that are neither, message types,
\* and payload lengths up to the last u32, around 2 MiB among them
HeaderMagics == {FCP_MAGIC_REQUEST, FCP_MAGIC_RESPONSE, 0, 84, 255}
HeaderTypes == {0, 1, 255}
HeaderLengths ==
    { <<0, 0>>, <<0, 1>>, <<0, 100>>, <<0, 256>>, <<0, 65535>>, <<1, 0>>,
      <<31, 65535>>, <<32, 0>>, <<32, 1>>, <<33, 0>>, <<258, 772>>, <<32768, 0>>,
      <<65535, 65535>> }
MsgHeaders ==
    { [magic |-> m, msg_type |-> ty, payload_length |-> l] :
        m \in HeaderMagics, ty \in HeaderTypes, l \in HeaderLengths }

\* Byte strings decoded: every prefix, and an extension by one byte, of the
\* encodings of a few headers and version messages
MsgByteStrings ==
    LET whole == { FcpMessageHeader_to_bytes(h) \o <<v>> :
                     h \in { x \in MsgHeaders : x.msg_type = 0
                                /\ x.payload_length \in {<<0, 1>>, <<32, 1>>, <<258, 772>>} },
                     v \in {0, FCP_PROTOCOL_VERSION} }
    IN  { SubSeq(b, 1, n) : b \in whole, n \in 0 .. 7 } \cup { b \o <<9>> : b \in whole }

MsgFrame ==
    UNCHANGED <<fcp_vars, s2_vars, mon_vars, tr_vars, fw_vars, dev_vars,
                dv_vars, det_vars, ct_vars, vh_vars>>

\* header.to_bytes() given to FcpMessageHeader::from_bytes
MsgHeaderRoundTrip ==
    /\ \E h \in MsgHeaders :
        msg_call' = [name |-> "header_round_trip", arg |-> h,
                     bytes |-> FcpMessageHeader_to_bytes(h),
                     result |-> FcpMessageHeader_from_bytes(FcpMessageHeader_to_bytes(h))]
    /\ MsgFrame

MsgHeaderFromBytes ==
    /\ \E bytes \in MsgByteStrings :
        msg_call' = [name |-> "header_from_bytes", arg |-> bytes, bytes |-> bytes,
                     result |-> FcpMessageHeader_from_bytes(bytes)]
    /\ MsgFrame

MsgHeaderValidate ==
    /\ \E h \in MsgHeaders :
        msg_call' = [name |-> "header_validate", arg |-> h, bytes |-> <<>>,
                     result |-> FcpMessageHeader_validate(h)]
    /\ MsgFrame

\* FcpVersionMessage::new(version).to_bytes() given to from_bytes
MsgVersionRoundTrip ==
    /\ \E version \in {0, FCP_PROTOCOL_VERSION, 2, 127, 255} :
        LET m == FcpVersionMessage_new(version)
        IN  msg_call' = [name |-> "version_round_trip", arg |-> m,
                         bytes |-> FcpVersionMessage_to_bytes(m),
                         result |-> FcpVersionMessage_from_bytes(
                                        FcpVersionMessage_to_bytes(m))]
    /\ MsgFrame

MsgVersionFromBytes ==
    /\ \E bytes \in MsgByteStrings :
        msg_call' = [name |-> "version_from_bytes", arg |-> bytes, bytes |-> bytes,
                     result |-> FcpVersionMessage_from_bytes(bytes)]
    /\ MsgFrame

InitMessages ==
    /\ interface_num = 0
    /\ overflow_checks = FALSE
    /\ FcpFresh
    /\ S2Fresh
    /\ MonFresh
    /\ ExtFresh

NextMessages ==
    \/ MsgHeaderRoundTrip
    \/ MsgHeaderFromBytes
    \/ MsgHeaderValidate
    \/ MsgVersionRoundTrip
    \/ MsgVersionFromBytes

SpecMessages == InitMessages /\ [][NextMessages]_vars

-----------------------------------------------------------------------------
(* SHA-256, as computed by sha2::Sha256 (firmware.rs:144-146) *)

\* the round constants K and the initial hash value H(0)
Sha256K ==
    <<
    <<17034, 12184>>, <<28983, 17553>>, <<46528, 64463>>, <<59829, 56229>>,
    <<14678, 49755>>, <<23025, 4593>>, <<37439, 33444>>, <<43804, 24277>>,
    <<55303, 43672>>, <<4739, 23297>>, <<9265, 34238>>, <<21772, 32195>>,
    <<29374, 23924>>, <<32990, 45566>>, <<39900, 1703>>, <<49563, 61812>>,
    <<58523, 27073>>, <<61374, 18310>>, <<4033, 40390>>, <<9228, 41420>>,
    <<11753, 11375>>, <<19060, 33962>>, <<23728, 43484>>, <<30457, 35034>>,
    <<38974, 20818>>, <<43057, 50797>>, <<45059, 10184>>, <<48985, 32711>>,
    <<50912, 3059>>, <<54695, 37191>>, <<1738, 25425>>, <<5161, 10599>>,
    <<10167, 2693>>, <<11803, 8504>>, <<19756, 28156>>, <<21304, 3347>>,
    <<25866, 29524>>, <<30314, 2747>>, <<33218, 51502>>, <<37490, 11397>>,
    <<41663, 59553>>, <<43034, 26187>>, <<49739, 35696>>, <<51052, 20899>>,
    <<53650, 59417>>, <<54937, 1572>>, <<62478, 13701>>, <<4202, 41072>>,
    <<6564, 49430>>, <<7735, 27656>>, <<10056, 30540>>, <<13488, 48309>>,
    <<14620, 3251>>, <<20184, 43594>>, <<23452, 51791>>, <<26670, 28659>>,
    <<29839, 33518>>, <<30885, 25455>>, <<33992, 30740>>, <<36039, 520>>,
    <<37054, 65530>>, <<42064, 27883>>, <<48889, 41975>>, <<50801, 30962>>
    >>

Sha256H0 ==
    <<
    <<27145, 58983>>, <<47975, 44677>>, <<15470, 62322>>, <<42319, 62778>>,
    <<20750, 21119>>, <<39685, 26764>>, <<8067, 55723>>, <<23520, 52505>>
    >>

(* SHA-256 (FIPS 180-4), the digest sha2::Sha256 computes.  A 32-bit word is *)
(* kept as <<high half, low half>>.                                        *)

\* bitwise and / xor of two n-bit numbers
RECURSIVE BitAnd(_, _, _)
BitAnd(a, b, n) ==
    IF n = 0 THEN 0
    ELSE (a % 2) * (b % 2) + 2 * BitAnd(a \div 2, b \div 2, n - 1)

RECURSIVE BitXor(_, _, _)
BitXor(a, b, n) ==
    IF n = 0 THEN 0
    ELSE ((a + b) % 2) + 2 * BitXor(a \div 2, b \div 2, n - 1)

Pow2(n) == 2 ^ n

WordAnd(a, b) == <<BitAnd(a[1], b[1], 16), BitAnd(a[2], b[2], 16)>>
WordXor(a, b) == <<BitXor(a[1], b[1], 16), BitXor(a[2], b[2], 16)>>
WordNot(a) == <<65535 - a[1], 65535 - a[2]>>
\* wrapping addition of two words
WordAdd(a, b) ==
    <<(a[1] + b[1] + ((a[2] + b[2]) \div 65536)) % 65536, (a[2] + b[2]) % 65536>>

\* rotate right / shift right by n bits, 0 < n < 32
RotR(a, n) ==
    LET x == IF n >= 16 THEN <<a[2], a[1]>> ELSE a
        m == n % 16
    IN  IF m = 0 THEN x
        ELSE <<(x[1] \div Pow2(m)) + (x[2] % Pow2(m)) * Pow2(16 - m),
               (x[2] \div Pow2(m)) + (x[1] % Pow2(m)) * Pow2(16 - m)>>
ShR(a, n) ==
    IF n >= 16 THEN <<0, a[1] \div Pow2(n - 16)>>
    ELSE <<a[1] \div Pow2(n), (a[2] \div Pow2(n)) + (a[1] % Pow2(n)) * Pow2(16 - n)>>

Xor3(a, b, c) == WordXor(WordXor(a, b), c)
BigSigma0(x) == Xor3(RotR(x, 2), RotR(x, 13), RotR(x, 22))
BigSigma1(x) == Xor3(RotR(x, 6), RotR(x, 11), RotR(x, 25))
SmallSigma0(x) == Xor3(RotR(x, 7), RotR(x, 18), ShR(x, 3))
SmallSigma1(x) == Xor3(RotR(x, 17), RotR(x, 19), ShR(x, 10))
Ch(x, y, z) == WordXor(WordAnd(x, y), WordAnd(WordNot(x), z))
Maj(x, y, z) == Xor3(WordAnd(x, y), WordAnd(x, z), WordAnd(y, z))

\* the message followed by 0x80, zeros up to 56 mod 64, and its length in
\* bits as a 64-bit big-endian number (messages here are shorter than 2^13 bytes)
Sha256Pad(msg) ==
    LET len == Len(msg)
        zeros == (119 - len) % 64
        bits == len * 8
    IN  msg \o <<128>> \o [i \in 1..zeros |-> 0]
            \o <<0, 0, 0, 0, 0, 0, bits \div 256, bits % 256>>

\* words 1..16 of the block starting at byte `at` (big-endian)
BlockWords(bytes, at) ==
    [t \in 1..16 |->
        <<bytes[at + 4 * (t - 1)] * 256 + bytes[at + 4 * (t - 1) + 1],
          bytes[at + 4 * (t - 1) + 2] * 256 + bytes[at + 4 * (t - 1) + 3]>>]

\* the message schedule: W extended by the words lo..hi
RECURSIVE Schedule(_, _, _)
Schedule(W, lo, hi) ==
    IF lo = hi
    THEN Append(W, WordAdd(WordAdd(SmallSigma1(W[lo - 2]), W[lo - 7]),
                           WordAdd(SmallSigma0(W[lo - 15]), W[lo - 16])))
    ELSE Let(Schedule(W, lo, (lo + hi) \div 2),
             LAMBDA W2 : Schedule(W2, (lo + hi) \div 2 + 1, hi))

\* one round on the working variables v = <<a, b, c, d, e, f, g, h>>
Sha256Round(v, k, w) ==
    Let(WordAdd(WordAdd(WordAdd(v[8], BigSigma1(v[5])), Ch(v[5], v[6], v[7])),
                WordAdd(k, w)),
        LAMBDA T1 :
            <<WordAdd(T1, WordAdd(BigSigma0(v[1]), Maj(v[1], v[2], v[3]))),
              v[1], v[2], v[3], WordAdd(v[4], T1), v[5], v[6], v[7]>>)

\* rounds lo..hi
RECURSIVE Rounds(_, _, _, _)
Rounds(v, W, lo, hi) ==
    IF lo = hi THEN Sha256Round(v, Sha256K[lo], W[lo])
    ELSE Let(Rounds(v, W, lo, (lo + hi) \div 2),
             LAMBDA v2 : Rounds(v2, W, (lo + hi) \div 2 + 1, hi))

\* the hash value after the block starting at byte `at`
Compress(H, bytes, at) ==
    Let(Schedule(BlockWords(bytes, at), 17, 64),
        LAMBDA W : Let(Rounds(H, W, 1, 64),
                       LAMBDA v : [i \in 1..8 |-> WordAdd(H[i], v[i])]))

\* the hash value after the blocks starting at bytes at, at + 64, ..
RECURSIVE Blocks(_, _, _)
Blocks(H, bytes, at) ==
    IF at > Len(bytes) THEN H
    ELSE Let(Compress(H, bytes, at), LAMBDA H2 : Blocks(H2, bytes, at + 64))

WordBytes(x) == <<x[1] \div 256, x[1] % 256, x[2] \div 256, x[2] % 256>>

\* Sha256::digest: the 32 bytes of the final hash value
Sha256(msg) ==
    Let(Sha256Pad(msg),
        LAMBDA bytes :
            Let(Blocks(Sha256H0, bytes, 1),
                LAMBDA H : WordBytes(H[1]) \o WordBytes(H[2]) \o WordBytes(H[3])
                           \o WordBytes(H[4]) \o WordBytes(H[5]) \o WordBytes(H[6])
                           \o WordBytes(H[7]) \o WordBytes(H[8])))

-----------------------------------------------------------------------------
(* Firmware file parser *)

\* u16::from_be_bytes, and u32::from_be_bytes as <<high half, low half>>
u16_from_be_bytes(b) == b[1] * 256 + b[2]
u32_from_be_bytes(b) == <<b[1] * 256 + b[2], b[3] * 256 + b[4]>>

\* b"SCARLETT"
FIRMWARE_MAGIC == <<83, 67, 65, 82, 76, 69, 84, 84>>
\* FirmwareHeader::SIZE
FirmwareHeader_SIZE == 52

FwOk(header, data) == [kind |-> "ok", msg |-> "", header |-> header, data |-> data]
FwErr(kind, msg)   == [kind |-> kind, msg |-> msg, header |-> <<>>, data |-> <<>>]

\* FirmwareHeader::from_bytes
FirmwareHeader_from_bytes(bytes) ==
    IF Len(bytes) < FirmwareHeader_SIZE THEN FwErr("protocol", "header_too_short")
    ELSE IF SubSeq(bytes, 1, 8) # FIRMWARE_MAGIC THEN FwErr("protocol", "bad_magic")
    ELSE FwOk([magic            |-> SubSeq(bytes, 1, 8),
               usb_vid          |-> u16_from_be_bytes(SubSeq(bytes, 9, 10)),
               usb_pid          |-> u16_from_be_bytes(SubSeq(bytes, 11, 12)),
               firmware_version |-> u32_from_be_bytes(SubSeq(bytes, 13, 16)),
               firmware_length  |-> u32_from_be_bytes(SubSeq(bytes, 17, 20)),
               sha256           |-> SubSeq(bytes, 21, 52)],
              <<>>)

\* FirmwareHeader::from_file on a file that can be opened: read_exact fails
\* with an I/O error (UnexpectedEof) when the file has fewer than 52 bytes
FirmwareHeader_from_file(file) ==
    IF Len(file) < FirmwareHeader_SIZE THEN FwErr("io", "unexpected_eof")
    ELSE FirmwareHeader_from_bytes(SubSeq(file, 1, FirmwareHeader_SIZE))

\* all_data.len() != FirmwareHeader::SIZE + header.firmware_length as usize,
\* for all_data of at least 52 bytes (usize of 64 bits: the sum is exact)
SizeMismatch(all_data, firmware_length) ==
    LET rest == Len(all_data) - FirmwareHeader_SIZE
    IN  firmware_length # <<rest \div 65536, rest % 65536>>

\* Payloads of the firmware files of the model: the strings of up to
\* MaxPayloadLen bytes over FwByteValues
FwByteValues == {0, 1, 255}
RECURSIVE FwStrings(_)
FwStrings(n) ==
    IF n = 0 THEN {<<>>}
    ELSE FwStrings(n - 1)
             \cup { Append(p, v) : p \in { q \in FwStrings(n - 1) : Len(q) = n - 1 },
                                   v \in FwByteValues }
FirmwarePayloads == FwStrings(MaxPayloadLen)

\* The digests of these payloads, computed once
Sha256Table == [p \in FirmwarePayloads |-> Sha256(p)]
\* hasher.update(&data); hasher.finalize()
Sha256Digest(data) ==
    IF data \in DOMAIN Sha256Table THEN Sha256Table[data] ELSE Sha256(data)

\* from_file without the file size validation
FirmwareFile_from_file_no_size_check(file) ==
    Let(FirmwareHeader_from_file(file), LAMBDA h :
        IF h.kind # "ok" THEN h
        ELSE Let(SubSeq(file, FirmwareHeader_SIZE + 1, Len(file)), LAMBDA data :
            IF Sha256Digest(data) # h.header.sha256
            THEN FwErr("protocol", "hash_mismatch")
            ELSE FwOk(h.header, data)))

\* from_file without the SHA-256 verification
FirmwareFile_from_file_no_digest_check(file) ==
    Let(FirmwareHeader_from_file(file), LAMBDA h :
        IF h.kind # "ok" THEN h
        ELSE IF SizeMismatch(file, h.header.firmware_length)
        THEN FwErr("protocol", "size_mismatch")
        ELSE FwOk(h.header, SubSeq(file, FirmwareHeader_SIZE + 1, Len(file))))

\* from_file verifying the SHA-256 hash before the file size
FirmwareFile_from_file_digest_first(file) ==
    Let(FirmwareHeader_from_file(file), LAMBDA h :
        IF h.kind # "ok" THEN h
        ELSE Let(SubSeq(file, FirmwareHeader_SIZE + 1, Len(file)), LAMBDA data :
            IF Sha256Digest(data) # h.header.sha256
            THEN FwErr("protocol", "hash_mismatch")
            ELSE IF SizeMismatch(file, h.header.firmware_length)
            THEN FwErr("protocol", "size_mismatch")
            ELSE FwOk(h.header, data)))

\* FirmwareFile::from_file on a file that can be opened and does not change
\* between the read of the header and the read of the whole file
FirmwareFile_from_file(file) ==
    Let(FirmwareHeader_from_file(file), LAMBDA h :
        IF h.kind # "ok" THEN h
        ELSE IF SizeMismatch(file, h.header.firmware_length)
        THEN FwErr("protocol", "size_mismatch")
        ELSE Let(SubSeq(file, FirmwareHeader_SIZE + 1, Len(file)), LAMBDA data :
            IF Sha256Digest(data) # h.header.sha256
            THEN FwErr("protocol", "hash_mismatch")
            ELSE FwOk(h.header, data)))

\* validate_for_device comparing the vendor ID only
validate_for_device_vid_only(image, vid, pid) ==
    IF image.header.usb_vid # vid THEN FwErr("protocol", "vid_mismatch")
    ELSE FwOk(<<>>, <<>>)

\* FirmwareFile::validate_for_device
validate_for_device(image, vid, pid) ==
    IF image.header.usb_vid # vid THEN FwErr("protocol", "vid_mismatch")
    ELSE IF image.header.usb_pid # pid THEN FwErr("protocol", "pid_mismatch")
    ELSE FwOk(<<>>, <<>>)

(* Files the parser is given *)

u16_to_be_bytes(value) == <<value \div 256, value % 256>>


FwMagics == { FIRMWARE_MAGIC,
              <<78, 79, 84, 77, 65, 71, 73, 67>>,
              <<83, 67, 65, 82, 76, 69, 84, 85>> }
FwVids == {4661, 4662}
FwPids == {33309, 33304}
FwVersions == { <<0, 1, 2, 3>> }
\* declared lengths: those of the payloads, one more, and two that no file has
FwLengths == { <<0, 0, 0, n>> : n \in 0..(MaxPayloadLen + 1) }
                 \cup { <<0, 1, 0, 0>>, <<255, 255, 255, 255>> }
\* declared digests: those of the payloads, and one that is no payload's
FwDigests == { Sha256Table[p] : p \in FirmwarePayloads } \cup { [i \in 1..32 |-> 0] }

FwWholeFiles ==
    { magic \o u16_to_be_bytes(vid) \o u16_to_be_bytes(pid) \o version
          \o length \o digest \o payload :
        magic \in FwMagics, vid \in FwVids, pid \in FwPids, version \in FwVersions,
        length \in FwLengths, digest \in FwDigests, payload \in FirmwarePayloads }
\* files cut short of the header
FwShortFiles ==
    { SubSeq(FIRMWARE_MAGIC \o [i \in 1..44 |-> 0], 1, n) : n \in {0, 1, 8, 20, 51} }
        \cup { SubSeq(<<78, 79, 84, 77, 65, 71, 73, 67>> \o [i \in 1..44 |-> 0], 1, n) :
                 n \in {8, 51} }
FirmwareInputs == FwWholeFiles \cup FwShortFiles

(* The parser as a state machine: a file, then the calls made on it *)

FwFromFile ==
    /\ fw_op.name = "none"
    /\ \E r \in {FirmwareFile_from_file(fw_file)} :
        /\ fw_result' = r
        /\ fw_image' = IF r.kind = "ok"
                       THEN [present |-> TRUE, header |-> r.header, data |-> r.data]
                       ELSE fw_image
    /\ fw_op' = [name |-> "from_file", vid |-> 0, pid |-> 0]
    /\ UNCHANGED <<fw_file, fcp_vars, s2_vars, mon_vars, det_vars, ct_vars, vh_vars, msg_vars, dv_vars, tr_vars, dev_vars>>

FwHeaderFromBytes ==
    /\ fw_op.name = "none"
    /\ fw_result' = FirmwareHeader_from_bytes(fw_file)
    /\ fw_op' = [name |-> "from_bytes", vid |-> 0, pid |-> 0]
    /\ UNCHANGED <<fw_file, fw_image, fcp_vars, s2_vars, mon_vars, det_vars, ct_vars, vh_vars, msg_vars, dv_vars, tr_vars, dev_vars>>

FwValidateForDevice ==
    /\ fw_image.present
    /\ fw_op.name = "from_file"
    /\ \E vid \in FwVids, pid \in FwPids :
        /\ fw_result' = validate_for_device(fw_image, vid, pid)
        /\ fw_op' = [name |-> "validate_for_device", vid |-> vid, pid |-> pid]
    /\ UNCHANGED <<fw_file, fw_image, fcp_vars, s2_vars, mon_vars, det_vars, ct_vars, vh_vars, msg_vars, dv_vars, tr_vars, dev_vars>>

InitFirmware ==
    /\ interface_num = 0
    /\ overflow_checks = FALSE
    /\ FcpFresh
    /\ S2Fresh
    /\ MonFresh
    /\ TrFresh
    /\ DevFresh
    /\ DvDetached
    /\ DetFresh
    /\ CtFresh
    /\ VhFresh
    /\ MsgFresh
    /\ fw_file \in FirmwareInputs
    /\ FwNothingParsed

NextFirmware ==
    \/ FwFromFile
    \/ FwHeaderFromBytes
    \/ FwValidateForDevice

SpecFirmware == InitFirmware /\ [][NextFirmware]_vars

-----------------------------------------------------------------------------
(* Opening a device (UsbDevice::open) and the protocol handlers of          *)
(* create_protocol                                                          *)

DeviceGenerations ==
    {"Gen1", "Gen2", "Gen3", "Gen4", "Clarett", "ClarettPlus", "Vocaster"}

\* DeviceModel::generation
ModelsOf(gen) ==
    CASE gen = "Gen1" -> {"Scarlett6i6Gen1", "Scarlett8i6Gen1", "Scarlett18i6Gen1",
                          "Scarlett18i8Gen1", "Scarlett18i20Gen1"}
      [] gen = "Gen2" -> {"Scarlett6i6Gen2", "Scarlett18i8Gen2", "Scarlett18i20Gen2"}
      [] gen = "Gen3" -> {"ScarlettSoloGen3", "Scarlett2i2Gen3", "Scarlett4i4Gen3",
                          "Scarlett8i6Gen3", "Scarlett18i8Gen3", "Scarlett18i20Gen3"}
      [] gen = "Gen4" -> {"ScarlettSoloGen4", "Scarlett2i2Gen4", "Scarlett4i4Gen4",
                          "Scarlett16i16Gen4", "Scarlett18i16Gen4", "Scarlett18i20Gen4"}
      [] gen = "Clarett" -> {"Clarett2PreUsb", "Clarett4PreUsb", "Clarett8PreUsb"}
      [] gen = "ClarettPlus" -> {"Clarett2PrePlus", "Clarett4PrePlus", "Clarett8PrePlus"}
      [] gen = "Vocaster" -> {"VocasterOne", "VocasterTwo"}
DeviceModels == UNION { ModelsOf(gen) : gen \in DeviceGenerations }
generation(model) == CHOOSE gen \in DeviceGenerations : model \in ModelsOf(gen)

\* FcpProtocol::new (interface 0) and Scarlett2Protocol::new
FcpProtocol_new_with_interface(interface_number) ==
    [initialized |-> FALSE, seq_num |-> 0, interface_num |-> interface_number]
FcpProtocol_new == FcpProtocol_new_with_interface(0)
Scarlett2Protocol_new == [sequence |-> 0]

\* DirectUsbTransport::new: claim_interface succeeds or fails
DirectUsbTransport_new(claimed, interface_number) ==
    IF claimed THEN [kind |-> "ok", val |-> [interface_number |-> interface_number]]
    ELSE [kind |-> "usb", val |-> <<>>]

\* open giving every generation but Gen4 a Scarlett2 engine
UsbDevice_open_scarlett2_default(info, claimed) ==
    LET gen == generation(info.model)
        transport == DirectUsbTransport_new(claimed, 0)
        opened(device_type) ==
            [kind |-> "ok",
             val |-> [present |-> TRUE, info |-> info, device_type |-> device_type,
                      connected |-> TRUE]]
    IN  IF gen = "Gen4"
        THEN IF transport.kind # "ok" THEN transport
             ELSE opened([kind |-> "Gen4Fcp", protocol |-> FcpProtocol_new,
                          transport |-> transport.val])
        ELSE opened([kind |-> "Gen2Or3", protocol |-> Scarlett2Protocol_new])

\* UsbDevice::open
UsbDevice_open(info, claimed) ==
    LET gen == generation(info.model)
        transport == DirectUsbTransport_new(claimed, 0)
        opened(device_type) ==
            [kind |-> "ok",
             val |-> [present |-> TRUE, info |-> info, device_type |-> device_type,
                      connected |-> TRUE]]
    IN  IF gen = "Gen4"
        THEN IF transport.kind # "ok" THEN transport
             ELSE opened([kind |-> "Gen4Fcp", protocol |-> FcpProtocol_new,
                          transport |-> transport.val])
        ELSE IF gen \in {"Gen2", "Gen3"}
        THEN opened([kind |-> "Gen2Or3", protocol |-> Scarlett2Protocol_new])
        ELSE [kind |-> "protocol", val |-> <<>>]

\* UsbDevice::fcp_protocol / scarlett2_protocol
fcp_protocol(device) ==
    IF device.device_type.kind = "Gen4Fcp"
    THEN [kind |-> "Some", val |-> device.device_type.protocol]
    ELSE [kind |-> "None", val |-> <<>>]
scarlett2_protocol(device) ==
    IF device.device_type.kind = "Gen2Or3"
    THEN [kind |-> "Some", val |-> device.device_type.protocol]
    ELSE [kind |-> "None", val |-> <<>>]

\* create_protocol: a unit struct per generation
create_protocol(gen) == [present |-> TRUE, kind |-> gen \o "Protocol"]

\* RoutingMatrix::new and MixerState::new
RoutingMatrix_new == [sources |-> <<>>, destinations |-> <<>>, routes |-> <<>>]
MixerState_new == [channels |-> <<>>, master_volume_db |-> 0, master_muted |-> FALSE]

\* The methods of the Protocol trait as Gen1Protocol and the
\* impl_protocol_placeholder! structs implement them
ProtocolCalls == {"get_routing", "set_routing", "get_mixer_state",
                  "set_channel_volume", "set_channel_pan", "get_level_meters"}
protocol_call(protocol, call) ==
    CASE call = "get_routing"      -> [kind |-> "ok", val |-> RoutingMatrix_new]
      [] call = "get_mixer_state"  -> [kind |-> "ok", val |-> MixerState_new]
      [] call = "get_level_meters" -> [kind |-> "ok", val |-> <<>>]
      [] OTHER                     -> [kind |-> "ok", val |-> "unit"]

DevOpen ==
    /\ ~dev_device.present
    /\ \E model \in DeviceModels, claimed \in BOOLEAN :
        \E r \in {UsbDevice_open(DeviceInfo_new(model, "Unknown", "usb-001-002"),
                                 claimed)} :
            /\ dev_result' = r
            /\ dev_device' = IF r.kind = "ok" THEN r.val ELSE dev_device
            /\ dev_op' = [name |-> "open", model |-> model,
                          generation |-> generation(model), claimed |-> claimed,
                          call |-> ""]
    /\ UNCHANGED <<dev_calls, dev_protocol, fcp_vars, s2_vars, mon_vars, det_vars, ct_vars, vh_vars, msg_vars, dv_vars, tr_vars, fw_vars>>

DevFcpProtocol ==
    /\ dev_device.present
    /\ dev_result' = fcp_protocol(dev_device)
    /\ dev_op' = [name |-> "fcp_protocol", model |-> dev_device.info.model,
                  generation |-> generation(dev_device.info.model),
                  claimed |-> FALSE, call |-> ""]
    /\ UNCHANGED <<dev_calls, dev_device, dev_protocol, fcp_vars, s2_vars, mon_vars, det_vars, ct_vars, vh_vars, msg_vars, dv_vars, tr_vars,
                   fw_vars>>

DevScarlett2Protocol ==
    /\ dev_device.present
    /\ dev_result' = scarlett2_protocol(dev_device)
    /\ dev_op' = [name |-> "scarlett2_protocol", model |-> dev_device.info.model,
                  generation |-> generation(dev_device.info.model),
                  claimed |-> FALSE, call |-> ""]
    /\ UNCHANGED <<dev_calls, dev_device, dev_protocol, fcp_vars, s2_vars, mon_vars, det_vars, ct_vars, vh_vars, msg_vars, dv_vars, tr_vars,
                   fw_vars>>

DevCreateProtocol ==
    /\ ~dev_protocol.present
    /\ \E gen \in DeviceGenerations :
        /\ dev_protocol' = create_protocol(gen)
        /\ dev_result' = [kind |-> "ok", val |-> create_protocol(gen).kind]
        /\ dev_op' = [name |-> "create_protocol", model |-> "", generation |-> gen,
                      claimed |-> FALSE, call |-> ""]
    /\ UNCHANGED <<dev_calls, dev_device, fcp_vars, s2_vars, mon_vars, det_vars, ct_vars, vh_vars, msg_vars, dv_vars, tr_vars, fw_vars>>

DevProtocolCall ==
    /\ dev_protocol.present
    /\ dev_op.name \in {"create_protocol", "protocol_call"}
    /\ \E call \in ProtocolCalls :
        /\ dev_result' = protocol_call(dev_protocol, call)
        /\ dev_op' = [dev_op EXCEPT !.name = "protocol_call", !.call = call]
    /\ UNCHANGED <<dev_calls, dev_device, dev_protocol, fcp_vars, s2_vars, mon_vars, det_vars, ct_vars, vh_vars, msg_vars, dv_vars, tr_vars,
                   fw_vars>>

\* The device or the handler is dropped
DevDrop ==
    /\ dev_device.present \/ dev_protocol.present
    /\ dev_device' = [present |-> FALSE]
    /\ dev_protocol' = [present |-> FALSE]
    /\ dev_op' = [name |-> "none", model |-> "", generation |-> "", claimed |-> FALSE,
                 call |-> ""]
    /\ dev_result' = [kind |-> "none", val |-> <<>>]
    /\ dev_calls' = <<>>
    /\ UNCHANGED <<fcp_vars, s2_vars, mon_vars, det_vars, ct_vars, vh_vars, msg_vars, dv_vars, tr_vars, fw_vars>>

InitDispatch ==
    /\ interface_num = 0
    /\ overflow_checks = FALSE
    /\ FcpFresh
    /\ S2Fresh
    /\ MonFresh
    /\ ExtFresh

NextDispatch ==
    \/ DevOpen
    \/ DevFcpProtocol
    \/ DevScarlett2Protocol
    \/ DevCreateProtocol
    \/ DevProtocolCall
    \/ DevDrop
    \/ TrBulk
    \/ TrCallerTakesResult

SpecDispatch == InitDispatch /\ [][NextDispatch]_vars

-----------------------------------------------------------------------------
(* UsbDevice in use: open, initialize, and calls on the engine it holds *)

\* calls made on one open device
MaxDeviceCalls == 3

\* The FcpProtocol a Gen4Fcp device holds, as the session init works on
HeldSession(protocol) ==
    [initialized |-> protocol.initialized, seq_num |-> protocol.seq_num,
     interface_num |-> protocol.interface_num, issued |-> 0, xfers |-> <<>>]

\* UsbDevice::initialize: the FCP handshake for Gen 4; the Gen 2/3 arm only
\* logs that initialization is not yet implemented
UsbDevice_initialize(device, env) ==
    IF device.device_type.kind = "Gen4Fcp"
    THEN LET r == init(HeldSession(device.device_type.protocol), env)
             outs == SelectSeq(r.s.xfers, LAMBDA x : x.dir = "out")
         IN  [device |-> [device EXCEPT !.device_type.protocol =
                            [initialized |-> r.s.initialized, seq_num |-> r.s.seq_num,
                             interface_num |-> r.s.interface_num]],
              written |-> [i \in 1 .. Len(outs) |-> outs[i].data],
              res |-> IF IsOk(r) THEN [kind |-> "ok", val |-> <<>>] ELSE r.res]
    ELSE [device |-> device, written |-> <<>>, res |-> [kind |-> "ok", val |-> <<>>]]

\* What the transport answers the two exchanges of the handshake with
HandshakeReplies ==
    { r \in Replies : r.fill = <<0>> /\ r.len \in {"none", "full"} }

UdCalled(name, device, written, res) ==
    /\ dev_device' = device
    /\ dev_result' = res
    /\ dev_op' = [name |-> name, model |-> dev_device.info.model,
                  generation |-> generation(dev_device.info.model),
                  claimed |-> FALSE, call |-> ""]
    /\ dev_calls' = Append(dev_calls, [call |-> name, written |-> written])
    /\ UNCHANGED <<dev_protocol, fcp_vars, s2_vars, mon_vars, det_vars, ct_vars,
                   vh_vars, msg_vars, dv_vars, tr_vars, fw_vars>>

UdInitialize ==
    /\ dev_device.present
    /\ Len(dev_calls) < MaxDeviceCalls
    /\ \E reply1 \in HandshakeReplies, reply2 \in HandshakeReplies :
        \E r \in {UsbDevice_initialize(dev_device, <<reply1, reply2>>)} :
            UdCalled("initialize", r.device, r.written, r.res)

\* scarlett2_protocol() gave the engine; send_command is called on it
UdSendCommand ==
    /\ dev_device.present
    /\ scarlett2_protocol(dev_device).kind = "Some"
    /\ Len(dev_calls) < MaxDeviceCalls
    /\ \E call \in S2Calls,
          response \in S2Responses(wrapping_add_1(dev_device.device_type.protocol.sequence)) :
        \E r \in {s2_send_command(dev_device.device_type.protocol.sequence,
                                  call.cmd, call.data, response)} :
            UdCalled("send_command",
                     [dev_device EXCEPT !.device_type.protocol.sequence = r.sequence],
                     r.written, r.res)

\* scarlett2_protocol() gave the engine; init is called on it
UdProtocolInit ==
    /\ dev_device.present
    /\ scarlett2_protocol(dev_device).kind = "Some"
    /\ Len(dev_calls) < MaxDeviceCalls
    /\ \E r \in {s2_init(dev_device.device_type.protocol.sequence)} :
        UdCalled("init",
                 [dev_device EXCEPT !.device_type.protocol.sequence = r.sequence],
                 r.written, r.res)

NextUsbDevice ==
    \/ DevOpen
    \/ UdInitialize
    \/ UdSendCommand
    \/ UdProtocolInit
    \/ DevDrop

SpecUsbDevice == InitDispatch /\ [][NextUsbDevice]_vars

-----------------------------------------------------------------------------
(* Device models and their USB product IDs (scarlett-core device.rs), and   *)
(* the scan of the USB bus (scarlett-usb detection.rs)                      *)

\* DeviceModel::product_id (0x8200 = 33280)
product_id(model) ==
    CASE model = "Scarlett6i6Gen1" -> 33283
      [] model = "Scarlett8i6Gen1" -> 33284
      [] model = "Scarlett18i6Gen1" -> 33281
      [] model = "Scarlett18i8Gen1" -> 33282
      [] model = "Scarlett18i20Gen1" -> 33280
      [] model = "Scarlett6i6Gen2" -> 33297
      [] model = "Scarlett18i8Gen2" -> 33296
      [] model = "Scarlett18i20Gen2" -> 33292
      [] model = "ScarlettSoloGen3" -> 33301
      [] model = "Scarlett2i2Gen3" -> 33300
      [] model = "Scarlett4i4Gen3" -> 33299
      [] model = "Scarlett8i6Gen3" -> 33298
      [] model = "Scarlett18i8Gen3" -> 33303
      [] model = "Scarlett18i20Gen3" -> 33304
      [] model = "ScarlettSoloGen4" -> 33315
      [] model = "Scarlett2i2Gen4" -> 33314
      [] model = "Scarlett4i4Gen4" -> 33313
      [] model = "Scarlett16i16Gen4" -> 33312
      [] model = "Scarlett18i16Gen4" -> 33311
      [] model = "Scarlett18i20Gen4" -> 33310
      [] model = "Clarett2PreUsb" -> 33286
      [] model = "Clarett4PreUsb" -> 33287
      [] model = "Clarett8PreUsb" -> 33288
      [] model = "Clarett2PrePlus" -> 33290
      [] model = "Clarett4PrePlus" -> 33291
      [] model = "Clarett8PrePlus" -> 33292
      [] model = "VocasterOne" -> 33289
      [] model = "VocasterTwo" -> 33305

\* DeviceModel::name
DeviceModel_name(model) ==
    CASE model = "Scarlett6i6Gen1" -> "Scarlett 6i6 (1st Gen)"
      [] model = "Scarlett8i6Gen1" -> "Scarlett 8i6 (1st Gen)"
      [] model = "Scarlett18i6Gen1" -> "Scarlett 18i6 (1st Gen)"
      [] model = "Scarlett18i8Gen1" -> "Scarlett 18i8 (1st Gen)"
      [] model = "Scarlett18i20Gen1" -> "Scarlett 18i20 (1st Gen)"
      [] model = "Scarlett6i6Gen2" -> "Scarlett 6i6 (2nd Gen)"
      [] model = "Scarlett18i8Gen2" -> "Scarlett 18i8 (2nd Gen)"
      [] model = "Scarlett18i20Gen2" -> "Scarlett 18i20 (2nd Gen)"
      [] model = "ScarlettSoloGen3" -> "Scarlett Solo (3rd Gen)"
      [] model = "Scarlett2i2Gen3" -> "Scarlett 2i2 (3rd Gen)"
      [] model = "Scarlett4i4Gen3" -> "Scarlett 4i4 (3rd Gen)"
      [] model = "Scarlett8i6Gen3" -> "Scarlett 8i6 (3rd Gen)"
      [] model = "Scarlett18i8Gen3" -> "Scarlett 18i8 (3rd Gen)"
      [] model = "Scarlett18i20Gen3" -> "Scarlett 18i20 (3rd Gen)"
      [] model = "ScarlettSoloGen4" -> "Scarlett Solo (4th Gen)"
      [] model = "Scarlett2i2Gen4" -> "Scarlett 2i2 (4th Gen)"
      [] model = "Scarlett4i4Gen4" -> "Scarlett 4i4 (4th Gen)"
      [] model = "Scarlett16i16Gen4" -> "Scarlett 16i16 (4th Gen)"
      [] model = "Scarlett18i16Gen4" -> "Scarlett 18i16 (4th Gen)"
      [] model = "Scarlett18i20Gen4" -> "Scarlett 18i20 (4th Gen)"
      [] model = "Clarett2PreUsb" -> "Clarett 2Pre USB"
      [] model = "Clarett4PreUsb" -> "Clarett 4Pre USB"
      [] model = "Clarett8PreUsb" -> "Clarett 8Pre USB"
      [] model = "Clarett2PrePlus" -> "Clarett+ 2Pre"
      [] model = "Clarett4PrePlus" -> "Clarett+ 4Pre"
      [] model = "Clarett8PrePlus" -> "Clarett+ 8Pre"
      [] model = "VocasterOne" -> "Vocaster One"
      [] model = "VocasterTwo" -> "Vocaster Two"

Some(v) == [kind |-> "Some", val |-> v]
None    == [kind |-> "None", val |-> <<>>]

\* from_product_id without the entry of the Vocaster Two (0x8219)
from_product_id_no_vocaster_two(pid) ==
    IF pid = 33305 THEN None
    ELSE IF pid = 33292 THEN Some("Scarlett18i20Gen2")
    ELSE IF \E m \in DeviceModels : product_id(m) = pid
    THEN Some(CHOOSE m \in DeviceModels : product_id(m) = pid)
    ELSE None

\* DeviceModel::from_product_id
from_product_id(pid) ==
    CASE pid = 33280 -> Some("Scarlett18i20Gen1")
      [] pid = 33281 -> Some("Scarlett18i6Gen1")
      [] pid = 33282 -> Some("Scarlett18i8Gen1")
      [] pid = 33283 -> Some("Scarlett6i6Gen1")
      [] pid = 33284 -> Some("Scarlett8i6Gen1")
      [] pid = 33292 -> Some("Scarlett18i20Gen2")
      [] pid = 33296 -> Some("Scarlett18i8Gen2")
      [] pid = 33297 -> Some("Scarlett6i6Gen2")
      [] pid = 33298 -> Some("Scarlett8i6Gen3")
      [] pid = 33299 -> Some("Scarlett4i4Gen3")
      [] pid = 33300 -> Some("Scarlett2i2Gen3")
      [] pid = 33301 -> Some("ScarlettSoloGen3")
      [] pid = 33303 -> Some("Scarlett18i8Gen3")
      [] pid = 33304 -> Some("Scarlett18i20Gen3")
      [] pid = 33310 -> Some("Scarlett18i20Gen4")
      [] pid = 33311 -> Some("Scarlett18i16Gen4")
      [] pid = 33312 -> Some("Scarlett16i16Gen4")
      [] pid = 33313 -> Some("Scarlett4i4Gen4")
      [] pid = 33314 -> Some("Scarlett2i2Gen4")
      [] pid = 33315 -> Some("ScarlettSoloGen4")
      [] pid = 33286 -> Some("Clarett2PreUsb")
      [] pid = 33287 -> Some("Clarett4PreUsb")
      [] pid = 33288 -> Some("Clarett8PreUsb")
      [] pid = 33290 -> Some("Clarett2PrePlus")
      [] pid = 33291 -> Some("Clarett4PrePlus")
      [] pid = 33289 -> Some("VocasterOne")
      [] pid = 33305 -> Some("VocasterTwo")
      [] OTHER -> None

FOCUSRITE_VENDOR_ID == 4661

\* format!("{:03}", n) for a u8
Digit(d) ==
    CASE d = 0 -> "0" [] d = 1 -> "1" [] d = 2 -> "2" [] d = 3 -> "3" [] d = 4 -> "4"
      [] d = 5 -> "5" [] d = 6 -> "6" [] d = 7 -> "7" [] d = 8 -> "8" [] d = 9 -> "9"
Pad3(n) == Digit(n \div 100) \o Digit((n \div 10) % 10) \o Digit(n % 10)

\* format!("usb-{:03}-{:03}", bus_number, device_address)
usb_path_of(bus_number, device_address) ==
    "usb-" \o Pad3(bus_number) \o "-" \o Pad3(device_address)

\* The record built for one enumerated device that passed both tests
scanned_device(device_info) ==
    DeviceInfo_new(from_product_id(device_info.product_id).val,
                   IF device_info.serial_number = None THEN "Unknown"
                   ELSE device_info.serial_number.val,
                   usb_path_of(device_info.bus_number, device_info.device_address))

\* The loop over the enumerated devices
RECURSIVE scan_loop(_)
scan_loop(device_list) ==
    IF device_list = <<>> THEN <<>>
    ELSE (IF Head(device_list).vendor_id = FOCUSRITE_VENDOR_ID
             /\ from_product_id(Head(device_list).product_id) # None
          THEN <<scanned_device(Head(device_list))>> ELSE <<>>)
         \o scan_loop(Tail(device_list))

\* scan_devices failing on a Focusrite device it does not recognize
scan_devices_fails_on_unknown(listing) ==
    IF ~listing.ok THEN [kind |-> "usb", devices |-> <<>>]
    ELSE IF \E i \in 1..Len(listing.devices) :
                /\ listing.devices[i].vendor_id = FOCUSRITE_VENDOR_ID
                /\ from_product_id(listing.devices[i].product_id) = None
    THEN [kind |-> "device_not_found", devices |-> <<>>]
    ELSE [kind |-> "ok", devices |-> scan_loop(listing.devices)]

\* DeviceDetector::scan_devices.  listing: what nusb::list_devices returned
scan_devices(listing) ==
    IF ~listing.ok THEN [kind |-> "usb", devices |-> <<>>]
    ELSE [kind |-> "ok", devices |-> scan_loop(listing.devices)]

\* scan_devices_internal: the same loop without the logging
scan_devices_internal(listing) ==
    IF ~listing.ok THEN [kind |-> "usb", devices |-> <<>>]
    ELSE [kind |-> "ok", devices |-> scan_loop(listing.devices)]

\* USB devices that may be attached: Focusrite interfaces with and without a
\* readable serial, a Focusrite device with an unknown product ID, a device
\* of another vendor with a product ID of the table, and two interfaces that
\* turn up at a bus address another one uses
UsbDevice(vendor_id, pid, serial_number, bus_number, device_address) ==
    [vendor_id |-> vendor_id, product_id |-> pid, serial_number |-> serial_number,
     bus_number |-> bus_number, device_address |-> device_address]
UsbCatalog ==
    { UsbDevice(FOCUSRITE_VENDOR_ID, 33310, Some("S18I20"), 1, 2),
      UsbDevice(FOCUSRITE_VENDOR_ID, 33300, None, 1, 3),
      UsbDevice(FOCUSRITE_VENDOR_ID, 0, None, 1, 4),
      UsbDevice(1133, 33310, Some("S18I20"), 2, 1),
      UsbDevice(FOCUSRITE_VENDOR_ID, 33292, None, 12, 105),
      UsbDevice(FOCUSRITE_VENDOR_ID, 33284, None, 1, 2),
      UsbDevice(FOCUSRITE_VENDOR_ID, 65535, Some("X"), 1, 3) }

\* Product IDs looked up: the table's range and its surroundings
LookupPids == (33275 .. 33320) \cup {0, 1, 4661, 65535}

\* A device is attached at a free bus address; it is enumerated last
DetPlug ==
    /\ Len(usb_devices) < MaxAttached
    /\ \E d \in UsbCatalog :
        /\ \A i \in 1..Len(usb_devices) :
              <<usb_devices[i].bus_number, usb_devices[i].device_address>>
                  # <<d.bus_number, d.device_address>>
        /\ usb_devices' = Append(usb_devices, d)
    /\ UNCHANGED <<det_op, det_result, fcp_vars, s2_vars, mon_vars, tr_vars, fw_vars,
                   dev_vars, dv_vars, ct_vars, vh_vars, msg_vars>>

DetUnplug ==
    /\ usb_devices # <<>>
    /\ \E i \in 1..Len(usb_devices) :
        usb_devices' = SubSeq(usb_devices, 1, i - 1)
                           \o SubSeq(usb_devices, i + 1, Len(usb_devices))
    /\ UNCHANGED <<det_op, det_result, fcp_vars, s2_vars, mon_vars, tr_vars, fw_vars,
                   dev_vars, dv_vars, ct_vars, vh_vars, msg_vars>>

DetScanDevices ==
    /\ Len(usb_devices) <= MaxAttached
    /\ \E ok \in BOOLEAN :
        \E listing \in {[ok |-> ok, devices |-> IF ok THEN usb_devices ELSE <<>>]} :
            /\ det_op' = [name |-> "scan_devices", arg |-> listing]
            /\ det_result' = scan_devices(listing)
    /\ UNCHANGED <<usb_devices, fcp_vars, s2_vars, mon_vars, tr_vars, fw_vars,
                   dev_vars, dv_vars, ct_vars, vh_vars, msg_vars>>

DetScanDevicesInternal ==
    /\ Len(usb_devices) <= MaxAttached
    /\ \E ok \in BOOLEAN :
        \E listing \in {[ok |-> ok, devices |-> IF ok THEN usb_devices ELSE <<>>]} :
            /\ det_op' = [name |-> "scan_devices_internal", arg |-> listing]
            /\ det_result' = scan_devices_internal(listing)
    /\ UNCHANGED <<usb_devices, fcp_vars, s2_vars, mon_vars, tr_vars, fw_vars,
                   dev_vars, dv_vars, ct_vars, vh_vars, msg_vars>>

\* The lookups do not read the bus: they are made with nothing attached
DetFromProductId ==
    /\ usb_devices = <<>>
    /\ \E pid \in LookupPids :
        /\ det_op' = [name |-> "from_product_id", arg |-> pid]
        /\ det_result' = from_product_id(pid)
    /\ UNCHANGED <<usb_devices, fcp_vars, s2_vars, mon_vars, tr_vars, fw_vars,
                   dev_vars, dv_vars, ct_vars, vh_vars, msg_vars>>

DetProductId ==
    /\ usb_devices = <<>>
    /\ \E model \in DeviceModels :
        /\ det_op' = [name |-> "product_id", arg |-> model]
        /\ det_result' = product_id(model)
    /\ UNCHANGED <<usb_devices, fcp_vars, s2_vars, mon_vars, tr_vars, fw_vars,
                   dev_vars, dv_vars, ct_vars, vh_vars, msg_vars>>

InitDetect ==
    /\ interface_num = 0
    /\ overflow_checks = FALSE
    /\ FcpFresh
    /\ S2Fresh
    /\ MonFresh
    /\ ExtFresh

NextDetect ==
    \/ DetPlug
    \/ DetUnplug
    \/ DetScanDevices
    \/ DetScanDevicesInternal
    \/ DetFromProductId
    \/ DetProductId

SpecDetect == InitDetect /\ [][NextDetect]_vars

-----------------------------------------------------------------------------
(* The GUI: the scan button and the monitor task on one bus.  The devices   *)
(* attached when start_monitoring is called stay attached.                   *)

\* What may be attached: up to MaxAttached devices of the catalog, each at
\* its own bus address
AttachedSets ==
    { l \in UNION { [1 .. n -> UsbCatalog] : n \in 0 .. MaxAttached } :
        \A i, j \in 1 .. Len(l) :
            i # j => <<l[i].bus_number, l[i].device_address>>
                        # <<l[j].bus_number, l[j].device_address>> }

\* What nusb::list_devices returns: an error, or the attached devices
Listings == { [ok |-> TRUE, devices |-> usb_devices], [ok |-> FALSE, devices |-> <<>>] }

\* The scan button writing what it found into the monitor's snapshot
GuiScanDevices_fills_snapshot ==
    /\ \E listing \in Listings :
        /\ det_op' = [name |-> "scan_devices", arg |-> listing, at_tick |-> ticks]
        /\ det_result' = scan_devices(listing)
        /\ current_devices' = scan_devices(listing).devices
    /\ UNCHANGED <<usb_devices, channel, received, sent, ticks, scans, tick_log,
                   fcp_vars, s2_vars, tr_vars, fw_vars, dev_vars, dv_vars, ct_vars,
                   vh_vars, msg_vars>>

\* ui.on_scan_devices: detector.scan_devices() called from the GUI, at any
\* moment between two iterations of the monitor loop.  The result goes to
\* the GUI's own list.
GuiScanDevices ==
    /\ \E listing \in Listings :
        /\ det_op' = [name |-> "scan_devices", arg |-> listing, at_tick |-> ticks]
        /\ det_result' = scan_devices(listing)
    /\ UNCHANGED <<usb_devices, mon_vars, fcp_vars, s2_vars, tr_vars, fw_vars,
                   dev_vars, dv_vars, ct_vars, vh_vars, msg_vars>>

\* One iteration of the monitor loop on this bus
GuiMonitorTick ==
    /\ ticks < MaxTicks
    /\ \E listing \in Listings :
        LET found == scan_devices_internal(listing)
            scan == [ok |-> found.kind = "ok", devices |-> found.devices]
            events == IF scan.ok THEN tick_events(current_devices, scan.devices)
                      ELSE <<>>
        IN  /\ ticks' = ticks + 1
            /\ scans' = Append(scans, scan)
            /\ channel' = channel \o Stamp(events, ticks + 1)
            /\ sent' = sent \o Stamp(events, ticks + 1)
            /\ current_devices' = snapshot_after(current_devices, scan)
            /\ tick_log' = [before |-> current_devices, scan |-> scan,
                            events |-> events]
    /\ UNCHANGED <<received, fcp_vars, s2_vars, ext_vars>>

InitGui ==
    /\ interface_num = 0
    /\ overflow_checks = FALSE
    /\ FcpFresh
    /\ S2Fresh
    /\ MonFresh
    /\ TrFresh
    /\ fw_file = <<>>
    /\ FwNothingParsed
    /\ DevFresh
    /\ DvDetached
    /\ usb_devices \in AttachedSets
    /\ det_op = [name |-> "none", arg |-> <<>>]
    /\ det_result = <<>>
    /\ CtFresh
    /\ VhFresh
    /\ MsgFresh

NextGui ==
    \/ GuiScanDevices
    \/ GuiMonitorTick
    \/ MonRecv

SpecGui == InitGui /\ [][NextGui]_vars

-----------------------------------------------------------------------------
(* Properties of the FCP engine (checked under Spec) *)

\* Fields of the request a transfer carries
XferOpcode(x) == u16_from_le_bytes(SubSeq(x.data, 1, 2))
                    + 65536 * u16_from_le_bytes(SubSeq(x.data, 3, 4))
XferSeq(x)    == u16_from_le_bytes(SubSeq(x.data, 7, 8))

\* The exchange of the command whose OUT transfer is xfers[i] succeeded: the
\* request was written and a response of at least the envelope was read
ExchangeOk(i) ==
    /\ i + 1 <= Len(xfers)
    /\ xfers[i].dir = "out" /\ xfers[i].status = "ok"
    /\ xfers[i + 1].dir = "in" /\ xfers[i + 1].status = "ok"
    /\ xfers[i + 1].cmd = xfers[i].cmd
    /\ xfers[i + 1].actual >= 16

\* C1: on a session on which init() has never succeeded, every data
\* operation returns a protocol error, issues no transfer, and leaves the
\* sequence counter and the initialized flag as they were.
C1_UninitializedRejects ==
    [][ (~ever_ready /\ last_op'.name \in DataOps) =>
            /\ result'.kind = "protocol"
            /\ xfers' = <<>>
            /\ seq_num' = seq_num
            /\ issued' = issued
            /\ initialized' = initialized ]_vars

C1_Witness ==
    /\ ~ever_ready
    /\ last_op.name = "toggle_mute"
    /\ result.kind = "protocol"
    /\ xfers = <<>>

\* The transfers of a completed handshake: Init1 out, 16 + 24 bytes in,
\* Init2 out, 16 + 84 bytes in, both exchanges successful
HandshakeDone ==
    /\ last_op.name = "init" /\ result.kind = "ok"
    /\ Len(xfers) = 4
    /\ XferOpcode(xfers[1]) = FcpOpcode_Init1 /\ xfers[1].length = 16
    /\ xfers[2].length = 16 + 24
    /\ ExchangeOk(1)
    /\ XferOpcode(xfers[3]) = FcpOpcode_Init2 /\ xfers[3].length = 16
    /\ xfers[4].length = 16 + 84
    /\ ExchangeOk(3)
    /\ xfers[1].cmd < xfers[3].cmd

\* C2: a session becomes Ready only by an init() call whose Init1 exchange
\* (24-byte reply expected) and then Init2 exchange (84-byte reply expected)
\* both succeeded; when the Init1 exchange fails Init2 is never sent, and
\* when either exchange fails on a session that was not Ready it stays
\* Uninitialized.
C2_ReadyOnlyByHandshake ==
    /\ (~was_initialized /\ initialized) => HandshakeDone
    /\ (last_op.name = "init" /\ ~ExchangeOk(1)) =>
            \A i \in 1..Len(xfers) :
                xfers[i].dir = "out" => XferOpcode(xfers[i]) # FcpOpcode_Init2
    /\ (last_op.name = "init" /\ ~was_initialized
            /\ (~ExchangeOk(1) \/ ~ExchangeOk(3))) => ~initialized

C2_Witness ==
    /\ ~was_initialized /\ initialized
    /\ last_op.name = "init"
    /\ issued = 2
    /\ Len(result.val[2]) = 84

\* C3 (as claimed): on a Ready session read_data and write_data with a size
\* outside {1, 2, 4} return an error and no transfer is seen on the
\* transport.
C3_InvalidSizeNoTransfer ==
    (/\ last_op.name \in {"read_data", "write_data"}
     /\ was_initialized
     /\ last_op.args[2] \notin {1, 2, 4})
        => (result.kind # "ok" /\ xfers = <<>>)

\* C4 (as claimed): the k-th command of a session carries sequence
\* k mod 2^16, and the command issued after sequence 65535 is sent, carrying
\* sequence 0.
C4_SequenceWraps ==
    /\ [](\A i \in 1..Len(xfers) :
            xfers[i].dir = "out" => XferSeq(xfers[i]) = xfers[i].cmd % 65536)
    /\ [][ (seq_num = 65535 /\ last_op'.name = "init") =>
                (xfers' # <<>> /\ XferSeq(xfers'[1]) = 0) ]_vars

\* C10: the transfers of a session are strictly request-then-response: a
\* command's OUT comes first, its IN (when a reply is expected and the OUT
\* succeeded) follows at once, every IN is immediately preceded by the OUT
\* of the same command, and commands do not overlap.
C10_RequestThenResponse ==
    \A i \in 1..Len(xfers) :
        /\ xfers[i].dir = "in" =>
                /\ i > 1
                /\ xfers[i - 1].dir = "out"
                /\ xfers[i - 1].cmd = xfers[i].cmd
                /\ xfers[i - 1].status = "ok"
                /\ xfers[i].length = 16 + xfers[i - 1].expects
        /\ xfers[i].dir = "out" =>
                /\ \A j \in 1..(i - 1) : xfers[j].cmd < xfers[i].cmd
                /\ (xfers[i].status = "ok" /\ xfers[i].expects > 0) =>
                        (i < Len(xfers) /\ xfers[i + 1].dir = "in")
                /\ (xfers[i].status # "ok" \/ xfers[i].expects = 0) =>
                        (i < Len(xfers) => xfers[i + 1].dir = "out")

C10_Witness ==
    /\ last_op.name = "adjust_volume"
    /\ result.kind = "ok"
    /\ Len(xfers) = 3
    /\ xfers[2].dir = "in"
\* C12: a transfer failure during an FCP command is neither retried nor
\* swallowed: a command issues at most one OUT and one IN, a transfer that
\* failed is the last one of the call (a failed OUT is followed by no IN),
\* and the call returns the transport's USB error, which it returns in no
\* other case.
C12_TransferFailurePropagates ==
    /\ \A i \in 1..Len(xfers) :
        xfers[i].status = "err" => i = Len(xfers) /\ result.kind = "usb"
    /\ \A i \in 1..Len(xfers), j \in 1..Len(xfers) :
        (i < j /\ xfers[i].cmd = xfers[j].cmd) =>
            (xfers[i].dir = "out" /\ xfers[j].dir = "in")
    /\ result.kind = "usb" =>
        (xfers # <<>> /\ xfers[Len(xfers)].status = "err")

\* an init() whose Init1 exchange succeeded and whose Init2 request failed
C12_Witness ==
    /\ last_op.name = "init"
    /\ Len(xfers) = 3
    /\ xfers[3].dir = "out"
    /\ xfers[3].status = "err"
    /\ result.kind = "usb"


\* The OUT transfers of a transfer log: one per command attempted
OutTransfers(log) == SelectSeq(log, LAMBDA x : x.dir = "out")

\* The sequence number in the envelope of a request
RequestSeq(request) == u16_from_le_bytes(SubSeq(request, 7, 8))

\* C33: every command a call attempts advances the sequence counter by one,
\* whatever became of it (the OUT transfer failed, the IN transfer failed,
\* fewer than 16 bytes came back, or it succeeded): the n commands of a call
\* carry the n numbers after the counter's value before the call and the
\* counter ends n higher (modulo 2^16), so the command after a failed one
\* carries the next number; a data operation on an uninitialized session
\* attempts no command and leaves the counter as it was.
C33_SequenceAdvancesPerAttempt ==
    [][ (last_op.name = "none" /\ last_op'.name # "none") =>
            LET outs == OutTransfers(xfers')
            IN  /\ seq_num' = (seq_num + Len(outs)) % 65536
                /\ \A i \in 1..Len(outs) :
                    RequestSeq(outs[i].data) = (seq_num + i) % 65536
                /\ result'.kind \in {"usb", "protocol"} /\ outs # <<>> =>
                    seq_num' # seq_num
                /\ (~initialized /\ last_op'.name \in DataOps) =>
                    /\ outs = <<>>
                    /\ seq_num' = seq_num
      ]_vars

\* init() on a session that is not ready and whose only earlier command
\* failed (an Init1 that was not followed by an Init2): the Init1 of this
\* call carries 2, and it fails in its turn
C33_Witness ==
    /\ last_op.name = "init"
    /\ ~was_initialized
    /\ Len(xfers) = 1
    /\ xfers[1].status = "err"
    /\ RequestSeq(xfers[1].data) = 2
    /\ result.kind = "usb"
    /\ seq_num = 2

\* C34: once init() has succeeded the session stays ready.  No step sets
\* initialized back to FALSE: not a data command that fails (transport
\* error, short response, invalid size), not a later init() that fails.  A
\* data operation on a ready session is therefore never turned away for
\* want of initialization: it reaches the transport, unless write_data
\* refuses its size or the arithmetic of the call panics.
C34_ReadyIsAbsorbing ==
    [][ /\ initialized => initialized'
        /\ ever_ready => initialized'
        /\ (initialized /\ last_op.name = "none" /\ last_op'.name \in DataOps) =>
            \/ xfers' # <<>>
            \/ result'.kind = "panic"
            \/ last_op'.name = "write_data" /\ last_op'.args[2] \notin {1, 2, 4}
      ]_vars

\* init() called again on a ready session: its Init1 fails on the transport
\* and the session is still ready
C34_Witness ==
    /\ last_op.name = "init"
    /\ was_initialized
    /\ result.kind = "usb"
    /\ Len(xfers) = 1
    /\ initialized

\* C39: read_meters(count) on a Ready session asks for exactly 4 * count
\* payload bytes, in an IN buffer of 16 + 4 * count bytes, and returns one
\* value for every complete group of four bytes received, whatever count
\* in 0..65535 it is given: no overflow, no truncation.  (A panic of the
\* sequence counter at 65535 is not counted here.)
C39_ReadMetersExactBytes ==
    (last_op.name = "read_meters" /\ was_initialized) =>
        LET count == last_op.args[1]
            payload_len == IF Len(xfers) = 2 /\ xfers[2].actual > 16
                        THEN xfers[2].actual - 16 ELSE 0
        IN  /\ result.kind = "panic" => seq_num = 65535
            /\ result.kind # "panic" =>
                /\ xfers # <<>>
                /\ xfers[1].expects = 4 * count
                /\ Len(xfers) = 2 => xfers[2].length = 16 + 4 * count
                /\ (count > 0 /\ xfers[1].status = "ok") => Len(xfers) = 2
                /\ result.kind = "ok" => Len(result.val) = payload_len \div 4

-----------------------------------------------------------------------------
(* Properties of send_command (checked under SpecSendCommand) *)

\* C21: every FCP command is sent as one class-specific OUT control
\* transfer (request type 0x21, request 2, value 0, index = the session's
\* interface number) whose data is the 16-byte little-endian envelope (u32
\* opcode, u16 payload length, u16 sequence, u32 error 0, u32 pad 0)
\* followed by the payload; when a reply is expected (and the OUT succeeded)
\* it is read by one class-specific IN transfer (request type 0xA1, request
\* 3, value 0, same index) into a buffer of 16 + response_size bytes.
C21_CommandFraming ==
    (last_op.name = "send_command" /\ result.kind # "panic") =>
        LET opcode        == last_op.args[1]
            payload       == last_op.args[2]
            response_size == last_op.args[3]
            out           == xfers[1]
        IN  /\ Len(xfers) \in {1, 2}
            /\ out.dir = "out"
            /\ out.transfer.request_type = 33
            /\ out.transfer.request = 2
            /\ out.transfer.value = 0
            /\ out.transfer.index = interface_num
            /\ out.transfer.direction = "Out"
            /\ Len(out.data) = 16 + Len(payload)
            /\ u32_from_le_bytes(SubSeq(out.data, 1, 4))
                   = <<opcode \div 65536, opcode % 65536>>
            /\ u16_from_le_bytes(SubSeq(out.data, 5, 6)) = Len(payload)
            /\ u16_from_le_bytes(SubSeq(out.data, 7, 8)) = seq_num
            /\ SubSeq(out.data, 9, 16) = <<0, 0, 0, 0, 0, 0, 0, 0>>
            /\ SubSeq(out.data, 17, Len(out.data)) = payload
            /\ Len(xfers) = 2 <=> (response_size > 0 /\ out.status = "ok")
            /\ Len(xfers) = 2 =>
                /\ xfers[2].dir = "in"
                /\ xfers[2].transfer.request_type = 161
                /\ xfers[2].transfer.request = 3
                /\ xfers[2].transfer.value = 0
                /\ xfers[2].transfer.index = interface_num
                /\ xfers[2].transfer.direction = "In"
                /\ xfers[2].length = 16 + response_size

\* a data read on interface 3 whose reply was read
C21_Witness ==
    /\ last_op.name = "send_command"
    /\ last_op.args[1] = FcpOpcode_DataRead
    /\ interface_num = 3
    /\ Len(xfers) = 2
    /\ xfers[2].status = "ok"

\* C22: when the IN transfer of a command returns fewer than 16 bytes,
\* send_command fails with a protocol error and returns no payload; when it
\* returns n >= 16 bytes, the payload returned is exactly the n - 16 bytes
\* that follow the envelope in the buffer.
C22_ShortResponseIsFramingError ==
    (last_op.name = "send_command" /\ Len(xfers) = 2 /\ xfers[2].status = "ok") =>
        IF xfers[2].actual < 16
        THEN result = [kind |-> "protocol", val |-> <<>>]
        ELSE /\ result.kind = "ok"
             /\ Len(result.val) = xfers[2].actual - 16
             /\ \A i \in 1..Len(result.val) : result.val[i] = xfers[2].data[16 + i]

\* a reply one byte short of the buffer
C22_Witness ==
    /\ last_op.name = "send_command"
    /\ last_op.args[3] = 8
    /\ Len(xfers) = 2
    /\ xfers[2].actual = 23
    /\ result.kind = "ok"
    /\ result.val = <<127, 0, 127, 0, 127, 0, 127>>

\* C23: the outcome of a command does not depend on the envelope of the
\* response: whatever opcode, length, sequence and error code the device
\* puts before the same payload bytes, send_command returns the same
\* result, and it is the successful payload whenever 16 bytes or more
\* arrived.
C23_EnvelopeNotValidated ==
    [][ last_op'.name = "send_command" =>
            LET reply == last_op'.args[4]
            IN  /\ \A h \in Headers :
                    send_command(Session, last_op'.args[1], last_op'.args[2],
                                 last_op'.args[3], [reply EXCEPT !.hdr = h]).res
                        = result'
                /\ (Len(xfers') = 2 /\ xfers'[2].status = "ok"
                        /\ xfers'[2].actual >= 16) => result'.kind = "ok" ]_vars

\* a response to Init2 that echoes a stale sequence number, answered with
\* its 84 bytes of payload
C23_Witness ==
    /\ last_op.name = "send_command"
    /\ last_op.args[4].hdr = "stale_seq"
    /\ Len(xfers) = 2
    /\ u16_from_le_bytes(SubSeq(xfers[2].data, 7, 8)) # seq_num
    /\ result.kind = "ok"
    /\ Len(result.val) = 84


-----------------------------------------------------------------------------
(* Properties of the FCP session on a storing device (checked under        *)
(* SpecDevice)                                                             *)

\* The 16-bit value a read returned (x: the IN transfer) and the one a write
\* carried (x: the OUT transfer)
ReadRaw(x)    == u16_from_le_bytes(SubSeq(x.data, 17, 18))
WrittenRaw(x) == u16_from_le_bytes(RequestValue(x.data))

\* C24: set_volume(i, d) writes the 16-bit value clamp(d, -127, 0) + 127,
\* within 0..127, at offset 0x34 + 2*i, and get_volume(i) returns the value
\* read there minus 127; setting the dB just read leaves the device's units
\* as they were (units 0..127), and on a device that stores what is written
\* get_volume after set_volume(i, d) returns clamp(d, -127, 0), which is d
\* for d in -127..0.
C24_VolumeRoundTrip ==
    /\ [](  (last_op.name = "set_volume" /\ result.kind = "ok") =>
                /\ Len(xfers) = 1
                /\ RequestOffset(xfers[1].data) = 52 + 2 * last_op.args[1]
                /\ RequestSize(xfers[1].data) = 2
                /\ Len(RequestValue(xfers[1].data)) = 2
                /\ WrittenRaw(xfers[1]) = clamp(last_op.args[2], -127, 0) + 127
                /\ WrittenRaw(xfers[1]) \in 0..127 )
    /\ [](  (last_op.name = "get_volume" /\ result.kind = "ok") =>
                /\ RequestOffset(xfers[1].data) = 52 + 2 * last_op.args[1]
                /\ RequestSize(xfers[1].data) = 2
                /\ result.val = ReadRaw(xfers[2]) - 127 )
    /\ [][ (last_op.name = "none" /\ last_op'.name = "set_volume" /\ dv_held.current
                /\ RawVolume(device_mem, dv_output) \in 0..127) =>
                RawVolume(device_mem', dv_output) = RawVolume(device_mem, dv_output)
         ]_vars
    /\ [][ (last_op.name = "none" /\ last_op'.name = "get_volume"
                /\ dv_last_set.current) =>
                /\ result'.val = clamp(dv_last_set.db, -127, 0)
                /\ dv_last_set.db \in -127..0 => result'.val = dv_last_set.db
         ]_vars

\* the caller set -200 dB and reads the volume back
C24_Witness ==
    /\ last_op.name = "get_volume"
    /\ dv_last_set = [db |-> -200, current |-> TRUE]
    /\ result = [kind |-> "ok", val |-> -127]

-----------------------------------------------------------------------------
(* Properties of the FCP session that is the only user of a storing device *)
(* (checked under SpecDeviceAlone)                                          *)

\* x carries a DataWrite request
XferIsWrite(x) ==
    u32_from_le_bytes(SubSeq(x.data, 1, 4))
        = <<FcpOpcode_DataWrite \div 65536, FcpOpcode_DataWrite % 65536>>

\* The k-th call from the end of the history (1 = the last)
CallFromEnd(k) == dv_calls[Len(dv_calls) + 1 - k]

\* The transfers of a read followed by a write, and nothing else
OneReadThenOneWrite(log) ==
    /\ Len(log) = 3
    /\ log[1].dir = "out" /\ XferIsRead(log[1])
    /\ log[2].dir = "in"
    /\ log[3].dir = "out" /\ XferIsWrite(log[3])

TwoTogglesInARow ==
    /\ Len(dv_calls) = 2
    /\ dv_calls[1].name = "toggle_mute" /\ dv_calls[1].res.kind = "ok"
    /\ dv_calls[1].before.muted
    /\ dv_calls[2].name = "toggle_mute" /\ dv_calls[2].res.kind = "ok"
    /\ DeviceHolds(device_mem).muted

-----------------------------------------------------------------------------
(* Properties of the volume and mute fields (checked under SpecLayout) *)

\* The addresses a DataWrite request covers
WrittenAddrs(request) ==
    { RequestOffset(request) + k : k \in 0 .. (RequestSize(request) - 1) }

\* C36: the two bytes of the volume field of an output, 0x34 + 2i and
\* 0x34 + 2i + 1, are the mute byte 0x5c + j of no output, for i and j in
\* 0..255: a set_volume writes no mute byte and leaves the mute state of
\* every output as it was, and a set_mute writes no byte of a volume field
\* and leaves the volume of every output as it was.
C36_VolumeAndMuteDisjoint ==
    /\ [](  (last_op.name = "set_volume" /\ result.kind = "ok") =>
                \A j \in U8Indices :
                    MuteAddr(j) \notin WrittenAddrs(xfers[1].data) )
    /\ [](  (last_op.name = "set_mute" /\ result.kind = "ok") =>
                \A i \in U8Indices :
                    {VolumeAddr(i), VolumeAddr(i) + 1}
                        \cap WrittenAddrs(xfers[1].data) = {} )
    /\ [][ (last_op.name = "none" /\ last_op'.name = "set_volume") =>
                \A j \in U8Indices :
                    (device_mem'[MuteAddr(j)] # 0) = (device_mem[MuteAddr(j)] # 0)
         ]_vars
    /\ [][ (last_op.name = "none" /\ last_op'.name = "set_mute") =>
                \A i \in U8Indices :
                    /\ device_mem'[VolumeAddr(i)] = device_mem[VolumeAddr(i)]
                    /\ device_mem'[VolumeAddr(i) + 1] = device_mem[VolumeAddr(i) + 1]
         ]_vars

-----------------------------------------------------------------------------
(* Properties of the Scarlett2 engine (checked under SpecScarlett2) *)

\* The sequence byte of the request the last send_command wrote
S2SentSeq == s2_written[1][2]

\* A response send_command accepts: at least the 4-byte header, command byte
\* RESPONSE, the sequence of the request echoed, and the declared payload
\* present
S2ValidResponse(response, seq) ==
    /\ Len(response) >= 4
    /\ response[1] = 3
    /\ response[2] = seq
    /\ Len(response) >= 4 + response[3] + 256 * response[4]

\* C5: send_command succeeds only on a response of length >= 4 whose command
\* byte is RESPONSE (3), whose sequence byte is the one the request carried
\* and which holds the declared payload; every other response gives a
\* protocol error and no payload; on success the result is the
\* declared-length payload after the 4-byte header.
C5_ResponseValidated ==
    s2_op.name = "send_command" =>
        /\ Len(s2_written) = 1
        /\ (s2_result.kind = "ok") <=> S2ValidResponse(s2_response, S2SentSeq)
        /\ s2_result.kind # "ok" =>
                (s2_result.kind = "protocol" /\ s2_result.val = <<>>)
        /\ s2_result.kind = "ok" =>
                /\ Len(s2_result.val) = s2_response[3] + 256 * s2_response[4]
                /\ \A i \in 1..Len(s2_result.val) :
                        s2_result.val[i] = s2_response[4 + i]

C5_Witness ==
    /\ s2_op.name = "send_command"
    /\ s2_result.kind = "ok"
    /\ s2_result.val = <<7, 9>>
    /\ Len(s2_response) = 7

\* C6: the k-th send_command of a fresh session carries sequence k mod 256
\* in byte 1 of its request; the command after sequence 255 carries 0 and is
\* sent like any other.
C6_SequenceWraps8 ==
    s2_op.name = "send_command" =>
        /\ Len(s2_written) = 1
        /\ s2_written[1][1] = 2
        /\ S2SentSeq = s2_issued % 256
        /\ sequence = s2_issued % 256

C6_Witness ==
    /\ s2_op.name = "send_command"
    /\ s2_issued = 256
    /\ S2SentSeq = 0
    /\ s2_result.kind = "ok"
-----------------------------------------------------------------------------
(* Properties of the hotplug monitor (checked under SpecMonitor) *)

\* The number of places of seq whose element satisfies Test
Count(seq, Test(_)) == Cardinality({ i \in 1..Len(seq) : Test(seq[i]) })

\* C7: in a tick whose scan succeeded with result S2 against snapshot S1
\* the events sent are exactly one Connected(d) for each d of S2 whose path
\* is not in S1 and one Disconnected(path) for each path of S1 not in S2 -
\* nothing else, nothing twice - also when S1 or S2 is empty; afterwards the
\* snapshot is S2.
C7_ScanDiff ==
    (ticks > 0 /\ tick_log.scan.ok) =>
        LET S1 == tick_log.before
            S2 == tick_log.scan.devices
            ev == tick_log.events
            new  == { i \in 1..Len(S2) : S2[i].usb_path \notin Paths(S1) }
            gone == Paths(S1) \ Paths(S2)
        IN  /\ \A i \in new :
                Count(ev, LAMBDA e : e.kind = "Connected" /\ e.info = S2[i]) = 1
            /\ \A p \in gone :
                Count(ev, LAMBDA e : e.kind = "Disconnected" /\ e.path = p) = 1
            /\ Len(ev) = Cardinality(new) + Cardinality(gone)
            /\ current_devices = S2
            /\ SubSeq(sent, Len(sent) - Len(ev) + 1, Len(sent)) = Stamp(ev, ticks)

C7_Witness ==
    /\ ticks > 1 /\ tick_log.scan.ok
    /\ Len(tick_log.before) = 2
    /\ Len(tick_log.scan.devices) = 1
    /\ Len(tick_log.events) = 1
    /\ tick_log.events[1].kind = "Disconnected"
    /\ tick_log.before[1].serial_number # tick_log.scan.devices[1].serial_number

\* The latest tick before tick n whose scan succeeded (0: none)
LastOkBefore(n) ==
    LET ok == { m \in 1..(n - 1) : scans[m].ok }
    IN  IF ok = {} THEN 0 ELSE CHOOSE m \in ok : \A k \in ok : k <= m

\* The devices the scan of tick n returned (tick 0: the empty snapshot the
\* task starts with)
ScanOf(n) == IF n = 0 THEN <<>> ELSE scans[n].devices

\* C8: a tick whose enumeration failed sends no event and leaves the
\* snapshot as it was; the next successful tick therefore diffs against the
\* last successful scan, and a device at a path present in both gets no
\* event in it.
C8_FailedTickSkipped ==
    /\ (ticks > 0 /\ ~tick_log.scan.ok) =>
            (tick_log.events = <<>> /\ current_devices = tick_log.before)
    /\ \A i \in 1..Len(sent) : scans[sent[i].tick].ok
    /\ current_devices = ScanOf(LastOkBefore(ticks + 1))
    /\ \A n \in 1..ticks : \A i \in 1..Len(sent) :
            (sent[i].tick = n /\ scans[n].ok) =>
                ~(/\ sent[i].event.path \in Paths(ScanOf(LastOkBefore(n)))
                  /\ sent[i].event.path \in Paths(ScanOf(n)))

C8_Witness ==
    /\ ticks = 3
    /\ scans[1].ok /\ ~scans[2].ok /\ scans[3].ok
    /\ Len(scans[1].devices) = 2
    /\ Paths(scans[3].devices) = Paths(scans[1].devices)
    /\ Len(sent) = 2

\* C9: within a tick every Connected is sent before any Disconnected, the
\* events of a tick are sent before those of the next, and the receiver
\* takes the events in the order sent.
InTickOrder(log) ==
    \A i, j \in 1..Len(log) :
        i < j =>
            /\ log[i].tick <= log[j].tick
            /\ log[i].tick = log[j].tick =>
                    ~(log[i].event.kind = "Disconnected"
                        /\ log[j].event.kind = "Connected")

C9_ConnectsBeforeDisconnects ==
    /\ InTickOrder(sent)
    /\ InTickOrder(received)
    /\ received \o channel = sent

C9_Witness ==
    \E i, j \in 1..Len(received) :
        /\ i < j
        /\ received[i].tick = received[j].tick
        /\ received[i].event.kind = "Connected"
        /\ received[j].event.kind = "Disconnected"
\* The path tokens whose last event among the first k sent is a Connected
RECURSIVE OpenPaths(_)
OpenPaths(k) ==
    IF k = 0 THEN {}
    ELSE IF sent[k].event.kind = "Connected"
         THEN OpenPaths(k - 1) \cup {sent[k].event.path}
         ELSE OpenPaths(k - 1) \ {sent[k].event.path}

\* C32: whatever ticks have run, failed ones among them, the path tokens
\* with a Connected that no later Disconnected follows are the path tokens of
\* the snapshot; no token is sent a second Connected without a Disconnected
\* in between, and none a Disconnected without a Connected before it that
\* is still unmatched.
C32_EventsMatchSnapshot ==
    /\ OpenPaths(Len(sent)) = Paths(current_devices)
    /\ \A k \in 1 .. Len(sent) :
        IF sent[k].event.kind = "Connected"
        THEN sent[k].event.path \notin OpenPaths(k - 1)
        ELSE sent[k].event.path \in OpenPaths(k - 1)

\* Two devices connected, a scan failed, then one of them was gone and
\* another had come: four events, two paths open, both in the snapshot
C32_Witness ==
    /\ ticks = 3
    /\ ~scans[2].ok
    /\ Len(sent) = 4
    /\ sent[3].event.kind = "Connected"
    /\ sent[4].event.kind = "Disconnected"
    /\ sent[4].event.path = sent[1].event.path
    /\ OpenPaths(4) = {sent[2].event.path, sent[3].event.path}
    /\ Len(current_devices) = 2

-----------------------------------------------------------------------------
(* Properties of the scan button beside the monitor (checked under SpecGui) *)

\* The events the monitor sent in its k-th iteration
EventsOfTick(k) ==
    LET stamped == SelectSeq(sent, LAMBDA x : x.tick = k)
    IN  [i \in 1 .. Len(stamped) |-> stamped[i].event]

\* A Connected for each recognized device attached, in enumeration order
ConnectedForAttached ==
    LET devices == scan_loop(usb_devices)
    IN  [i \in 1 .. Len(devices) |-> HotplugEvent_Connected(devices[i])]

\* C38: a scan_devices() call made from the GUI sends no hotplug event and
\* neither reads nor changes the monitor's snapshot: the snapshot is empty
\* until the monitor's first successful iteration and changes in an
\* iteration of the monitor only.  The first successful iteration therefore
\* sends a Connected for every recognized device attached when monitoring
\* started, whether or not a manual scan has returned the device before.
C38_ManualScanBesideMonitor ==
    /\ [][ (ticks' = ticks /\ received' = received) =>
               UNCHANGED <<current_devices, channel, sent>> ]_vars
    /\ []( (\A j \in 1 .. ticks : ~scans[j].ok) =>
               current_devices = <<>> /\ sent = <<>> )
    /\ []( \A k \in 1 .. ticks :
               (scans[k].ok /\ \A j \in 1 .. (k - 1) : ~scans[j].ok) =>
                   EventsOfTick(k) = ConnectedForAttached )

\* A manual scan returned the two attached devices before the monitor's
\* first iteration, which failed; the second iteration sent a Connected for
\* both
C38_Witness ==
    /\ det_op.name = "scan_devices"
    /\ det_op.at_tick = 0
    /\ det_result.kind = "ok"
    /\ Len(det_result.devices) = 2
    /\ ticks = 2
    /\ ~scans[1].ok
    /\ scans[2].ok
    /\ EventsOfTick(2) = [i \in 1 .. 2 |-> HotplugEvent_Connected(det_result.devices[i])]
    /\ current_devices = det_result.devices

-----------------------------------------------------------------------------
(* Properties of the transport (checked under SpecTransport) *)

\* C11 (as claimed): every control transfer returns to its caller; when the
\* device never completes it, the call has ended with a transport error by
\* the time the descriptor's timeout has elapsed.
C11_TransferReturns ==
    /\ (tr_state = "blocked") ~> (tr_state = "returned")
    /\ [](tr_state = "blocked" => tr_elapsed_ms <= tr_call.transfer.timeout_ms)

\* Request types by the value of bits 5-6 and of bits 0-4
TypesWithControl(bits) == { rt \in 0 .. 255 : (rt \div 32) % 4 = bits }
TypesWithRecipient(bits) == { rt \in 0 .. 255 : rt % 32 = bits }

\* C37: control_out and control_in read the control type from bits 5-6 of
\* the request-type byte (0 standard, 1 class, 2 vendor) and the recipient
\* from bits 0-4 (0 device, 1 interface, 2 endpoint, 3 other).  A byte with
\* type bits 3 or a recipient above 3 is answered with a transport error and
\* nothing is submitted; for any other byte the request submitted carries
\* that type and recipient and the descriptor's request, value and index
\* unchanged.  control_in returns no more than the length of the buffer.
C37_RequestTypeMapping ==
    tr_call.op \in {"control_out", "control_in"} =>
        LET transfer == tr_call.transfer
            rt == transfer.request_type
            sent_req == tr_call.nusb
        IN  IF rt \in TypesWithControl(3)
                  \/ rt \notin UNION { TypesWithRecipient(b) : b \in 0 .. 3 }
            THEN /\ sent_req.control_type = "none"
                 /\ tr_state = "returned"
                 /\ tr_result.kind = "usb"
                 /\ tr_completion.status = "pending"
            ELSE /\ rt \in TypesWithControl(0) <=> sent_req.control_type = "Standard"
                 /\ rt \in TypesWithControl(1) <=> sent_req.control_type = "Class"
                 /\ rt \in TypesWithControl(2) <=> sent_req.control_type = "Vendor"
                 /\ rt \in TypesWithRecipient(0) <=> sent_req.recipient = "Device"
                 /\ rt \in TypesWithRecipient(1) <=> sent_req.recipient = "Interface"
                 /\ rt \in TypesWithRecipient(2) <=> sent_req.recipient = "Endpoint"
                 /\ rt \in TypesWithRecipient(3) <=> sent_req.recipient = "Other"
                 /\ sent_req.request = transfer.request
                 /\ sent_req.value = transfer.value
                 /\ sent_req.index = transfer.index
                 /\ (tr_call.op = "control_in" /\ tr_result.kind = "ok") =>
                        tr_result.val <= tr_call.len

\* A standard request to the device went in with its request, value and
\* index, the device sent 40 bytes and control_in returned the 16 of its
\* buffer
C37_Witness ==
    /\ tr_call.op = "control_in"
    /\ tr_call.transfer.request_type = 128
    /\ tr_call.nusb = [control_type |-> "Standard", recipient |-> "Device",
                       request |-> 6, value |-> 256, index |-> 0, length |-> 16]
    /\ tr_completion = [status |-> "ok", len |-> 40]
    /\ tr_result = [kind |-> "ok", val |-> 16]

-----------------------------------------------------------------------------
(* Properties of the firmware parser (checked under SpecFirmware) *)

\* The magic, the declared length and the declared digest of a file of at
\* least 52 bytes are those of the file itself
MagicOk(b)  == SubSeq(b, 1, 8) = FIRMWARE_MAGIC
LengthOk(b) ==
    SubSeq(b, 17, 20) = WordBytes(<<(Len(b) - 52) \div 65536, (Len(b) - 52) % 65536>>)
DigestOk(b) == Sha256Digest(SubSeq(b, 53, Len(b))) = SubSeq(b, 21, 52)
ValidImage(b) == Len(b) >= 52 /\ MagicOk(b) /\ LengthOk(b) /\ DigestOk(b)

\* C13: from_file succeeds exactly on the valid images (at least 52 bytes,
\* magic "SCARLETT", length = 52 + the big-endian u32 at bytes 16..20,
\* SHA-256 of the bytes after the header = bytes 20..52); the image returned
\* has the bytes after the header as its payload and the big-endian decoding
\* of the header as its fields, and a failed parse returns no image.
C13_ParseExactlyValid ==
    fw_op.name = "from_file" =>
        /\ fw_result.kind = "ok" <=> ValidImage(fw_file)
        /\ fw_result.kind = "ok" =>
            /\ fw_result.data = SubSeq(fw_file, 53, Len(fw_file))
            /\ fw_result.header.magic = SubSeq(fw_file, 1, 8)
            /\ u16_to_be_bytes(fw_result.header.usb_vid) = SubSeq(fw_file, 9, 10)
            /\ u16_to_be_bytes(fw_result.header.usb_pid) = SubSeq(fw_file, 11, 12)
            /\ WordBytes(fw_result.header.firmware_version) = SubSeq(fw_file, 13, 16)
            /\ WordBytes(fw_result.header.firmware_length) = SubSeq(fw_file, 17, 20)
            /\ fw_result.header.sha256 = SubSeq(fw_file, 21, 52)
            /\ fw_result.header.firmware_length = <<0, Len(fw_result.data)>>
            /\ fw_result.header.sha256 = Sha256Digest(fw_result.data)
            /\ fw_image = [present |-> TRUE, header |-> fw_result.header,
                           data |-> fw_result.data]
        /\ fw_result.kind # "ok" =>
            /\ fw_result.header = <<>>
            /\ fw_result.data = <<>>
            /\ ~fw_image.present

\* a valid image with a payload of two bytes was parsed
C13_Witness ==
    /\ fw_op.name = "from_file"
    /\ fw_result.kind = "ok"
    /\ Len(fw_result.data) = 2
    /\ fw_result.header.usb_vid = 4661

\* b is a valid image in which one byte of the payload was changed
PayloadCorrupted(b) ==
    /\ Len(b) >= 52
    /\ MagicOk(b)
    /\ LengthOk(b)
    /\ \E q \in FirmwarePayloads :
        /\ Len(q) = Len(b) - 52
        /\ Cardinality({ i \in 1..Len(q) : q[i] # b[52 + i] }) = 1
        /\ Sha256Digest(q) = SubSeq(b, 21, 52)

\* C14: a valid image in which a single payload byte was changed (header
\* untouched) is rejected with the digest-mismatch error, and no image is
\* returned.
C14_CorruptedPayloadRejected ==
    (fw_op.name = "from_file" /\ PayloadCorrupted(fw_file)) =>
        /\ fw_result = FwErr("protocol", "hash_mismatch")
        /\ ~fw_image.present

\* such a file, of two payload bytes, was given to from_file
C14_Witness ==
    /\ fw_op.name = "from_file"
    /\ PayloadCorrupted(fw_file)
    /\ Len(fw_file) = 54
    /\ fw_result.msg = "hash_mismatch"

\* C15 (as claimed): an input shorter than 52 bytes is rejected with the
\* header-too-short error and no other.
C15_ShortInputHeaderTooShort ==
    (fw_op.name \in {"from_file", "from_bytes"} /\ Len(fw_file) < 52) =>
        fw_result = FwErr("protocol", "header_too_short")

\* The gate that rejects b, in the order header length, magic, total size,
\* digest
FirstFailingGate(b) ==
    IF Len(b) < 52 THEN "length"
    ELSE IF ~MagicOk(b) THEN "magic"
    ELSE IF ~LengthOk(b) THEN "size"
    ELSE IF ~DigestOk(b) THEN "digest"
    ELSE "none"

\* C16: the gates are applied in the order header length, magic, total
\* size, digest: an input is rejected by the earliest gate it fails, so one
\* with a wrong magic is rejected as bad magic whatever its size and digest,
\* and one of a wrong total length as a size mismatch whatever its digest.
C16_GateOrder ==
    /\ fw_op.name = "from_file" =>
        CASE FirstFailingGate(fw_file) = "length" ->
                 fw_result.kind # "ok"
                     /\ fw_result.msg \in {"unexpected_eof", "header_too_short"}
          [] FirstFailingGate(fw_file) = "magic" ->
                 fw_result = FwErr("protocol", "bad_magic")
          [] FirstFailingGate(fw_file) = "size" ->
                 fw_result = FwErr("protocol", "size_mismatch")
          [] FirstFailingGate(fw_file) = "digest" ->
                 fw_result = FwErr("protocol", "hash_mismatch")
          [] OTHER -> fw_result.kind = "ok"
    /\ fw_op.name = "from_bytes" =>
        CASE FirstFailingGate(fw_file) = "length" ->
                 fw_result = FwErr("protocol", "header_too_short")
          [] FirstFailingGate(fw_file) = "magic" ->
                 fw_result = FwErr("protocol", "bad_magic")
          [] OTHER -> fw_result.kind = "ok"

\* a file of a wrong total length and a wrong digest was rejected for its
\* length
C16_Witness ==
    /\ fw_op.name = "from_file"
    /\ Len(fw_file) >= 52
    /\ MagicOk(fw_file)
    /\ ~LengthOk(fw_file)
    /\ ~DigestOk(fw_file)
    /\ fw_result.msg = "size_mismatch"

\* C17: validate_for_device succeeds iff the header's vendor and product IDs
\* are the ones given and fails with an error otherwise; the outcome depends
\* on nothing else of the image, and the image is left as it was.
C17_ValidateForDevice ==
    /\ [](fw_op.name = "validate_for_device" =>
            /\ fw_result.kind = "ok" <=>
                   (fw_image.header.usb_vid = fw_op.vid
                        /\ fw_image.header.usb_pid = fw_op.pid)
            /\ fw_result.kind \in {"ok", "protocol"}
            /\ fw_result = validate_for_device(
                   [header |-> [usb_vid |-> fw_image.header.usb_vid,
                                usb_pid |-> fw_image.header.usb_pid]],
                   fw_op.vid, fw_op.pid))
    /\ [][fw_op'.name = "validate_for_device" =>
            (fw_image' = fw_image /\ fw_file' = fw_file)]_vars

\* an image was refused for its product ID alone
C17_Witness ==
    /\ fw_op.name = "validate_for_device"
    /\ fw_image.header.usb_vid = fw_op.vid
    /\ fw_image.header.usb_pid # fw_op.pid
    /\ fw_result.kind = "protocol"

-----------------------------------------------------------------------------
(* Properties of device opening and of the protocol handlers (checked     *)
(* under SpecDispatch)                                                      *)

\* C18: an opened device holds the engine of its model's generation: a Gen4
\* device an FCP engine (not initialized, sequence 0) on the claimed
\* interface 0, a Gen2 or Gen3 device a Scarlett2 engine (sequence 0); it
\* exposes exactly one engine, fcp_protocol() being present iff the
\* generation is Gen4 and scarlett2_protocol() iff it is Gen2 or Gen3.
C18_OpenDispatchesOnGeneration ==
    /\ dev_device.present =>
        LET gen == generation(dev_device.info.model)
        IN  /\ gen = "Gen4" <=> dev_device.device_type.kind = "Gen4Fcp"
            /\ gen \in {"Gen2", "Gen3"} <=> dev_device.device_type.kind = "Gen2Or3"
            /\ gen = "Gen4" =>
                /\ dev_device.device_type.protocol
                       = [initialized |-> FALSE, seq_num |-> 0, interface_num |-> 0]
                /\ dev_device.device_type.transport = [interface_number |-> 0]
            /\ gen \in {"Gen2", "Gen3"} =>
                dev_device.device_type.protocol = [sequence |-> 0]
            /\ fcp_protocol(dev_device).kind = "Some" <=> gen = "Gen4"
            /\ scarlett2_protocol(dev_device).kind = "Some" <=> gen \in {"Gen2", "Gen3"}
            /\ fcp_protocol(dev_device).kind = "Some"
                   <=> scarlett2_protocol(dev_device).kind = "None"
    /\ dev_op.name = "open" =>
        /\ dev_op.generation \in {"Gen2", "Gen3"} => dev_result.kind = "ok"
        /\ dev_op.generation = "Gen4" => (dev_result.kind = "ok" <=> dev_op.claimed)
    /\ dev_op.name = "fcp_protocol" =>
        /\ dev_result.kind = "Some" <=> dev_op.generation = "Gen4"
        /\ dev_result.kind = "Some" => dev_result.val = dev_device.device_type.protocol
    /\ dev_op.name = "scarlett2_protocol" =>
        /\ dev_result.kind = "Some" <=> dev_op.generation \in {"Gen2", "Gen3"}
        /\ dev_result.kind = "Some" => dev_result.val = dev_device.device_type.protocol

\* a Gen3 device was opened and asked for its FCP engine
C18_Witness ==
    /\ dev_device.present
    /\ dev_op.name = "fcp_protocol"
    /\ dev_op.generation = "Gen3"
    /\ dev_result.kind = "None"

\* C19 (as claimed): for each of the seven generations the dispatcher
\* yields an engine and never an error, and the handlers of the generations
\* without a wire protocol answer every operation with an empty result.
C19_DispatcherTotal ==
    /\ (dev_op.name = "open" /\ dev_op.claimed) =>
        (dev_result.kind = "ok" /\ dev_device.present)
    /\ dev_op.name = "create_protocol" =>
        (dev_result.kind = "ok" /\ dev_protocol.present)
    /\ (dev_op.name = "protocol_call"
            /\ dev_op.generation \notin {"Gen2", "Gen3", "Gen4"}) =>
        /\ dev_result.kind = "ok"
        /\ dev_result.val \in {RoutingMatrix_new, MixerState_new, <<>>, "unit"}

\* C20 (as claimed): an operation that fails for want of an implementation
\* (opening a device of a generation without a wire protocol, a bulk
\* transfer on the direct USB transport) fails with the NotSupported kind.
C20_NotSupportedKind ==
    /\ (dev_op.name = "open" /\ dev_op.generation \notin {"Gen2", "Gen3", "Gen4"}) =>
        dev_result.kind = "not_supported"
    /\ (tr_state = "returned" /\ tr_call.op \in {"bulk_out", "bulk_in"}) =>
        tr_result.kind = "not_supported"

\* C26: the monitor identifies a device by its path token alone.  Devices
\* of a successful scan with equal serial numbers and different path tokens
\* are told apart: each one whose path was not in the snapshot gets its own
\* Connected event, and each snapshot device whose path is not in the scan
\* gets its own Disconnected event carrying its path, whatever serials the
\* others have; a path present in the snapshot and in the scan gets no event
\* even though the serial number or the model seen at it changed.
C26_IdentityIsPathToken ==
    (ticks > 0 /\ tick_log.scan.ok) =>
        LET S1 == tick_log.before
            S2 == tick_log.scan.devices
            ev == tick_log.events
            About(p) == SelectSeq(ev, LAMBDA e : e.path = p)
        IN  /\ \A i \in 1..Len(S2) :
                S2[i].usb_path \notin Paths(S1) =>
                    About(S2[i].usb_path) = <<HotplugEvent_Connected(S2[i])>>
            /\ \A i \in 1..Len(S1) :
                S1[i].usb_path \notin Paths(S2) =>
                    About(S1[i].usb_path)
                        = <<HotplugEvent_Disconnected(S1[i].usb_path)>>
            /\ \A i \in 1..Len(S1), j \in 1..Len(S2) :
                S1[i].usb_path = S2[j].usb_path => About(S1[i].usb_path) = <<>>

\* two devices with the serial "Unknown" were connected by one tick, each
\* with its own event; in the next the second is gone and another unit
\* (other serial, other model) is seen at the path of the first: the only
\* event is the Disconnected of the second
C26_Witness ==
    /\ ticks = 2 /\ scans[1].ok /\ tick_log.scan.ok
    /\ Len(tick_log.before) = 2
    /\ tick_log.before[1].serial_number = "Unknown"
    /\ tick_log.before[2].serial_number = "Unknown"
    /\ tick_log.before[1].usb_path # tick_log.before[2].usb_path
    /\ Len(sent) = 3
    /\ sent[1].event = HotplugEvent_Connected(tick_log.before[1])
    /\ sent[2].event = HotplugEvent_Connected(tick_log.before[2])
    /\ Len(tick_log.scan.devices) = 1
    /\ tick_log.scan.devices[1].usb_path = tick_log.before[1].usb_path
    /\ tick_log.scan.devices[1].serial_number # "Unknown"
    /\ tick_log.scan.devices[1].model # tick_log.before[1].model
    /\ tick_log.events = <<HotplugEvent_Disconnected(tick_log.before[2].usb_path)>>

-----------------------------------------------------------------------------
(* Properties of an open UsbDevice in use (checked under SpecUsbDevice) *)

\* The messages written on the wire by the first k calls, in order
RECURSIVE WrittenBy(_)
WrittenBy(k) ==
    IF k = 0 THEN <<>> ELSE WrittenBy(k - 1) \o dev_calls[k].written

\* C31: on a Gen 2 or Gen 3 device that was opened and initialized before
\* its first command, the Scarlett2 INIT message is on the wire before the
\* first REQUEST message; and INIT takes no sequence number: the n-th
\* REQUEST carries sequence n (mod 256) however many INITs were written.
C31_InitBeforeFirstRequest ==
    (dev_device.present /\ dev_device.device_type.kind = "Gen2Or3") =>
        LET wire == WrittenBy(Len(dev_calls))
            requests == SelectSeq(wire, LAMBDA m : m[1] = SCARLETT2_USB_CMD_REQ)
            commands == { k \in 1 .. Len(dev_calls) : dev_calls[k].call = "send_command" }
        IN  /\ \A k \in commands :
                  (\E j \in 1 .. (k - 1) : dev_calls[j].call = "initialize"
                      /\ \A c \in commands : j < c)
                  => \E i \in 1 .. Len(WrittenBy(k - 1)) :
                        WrittenBy(k - 1)[i] = <<SCARLETT2_USB_CMD_INIT, 0>>
            /\ \A n \in 1 .. Len(requests) : requests[n][2] = n % 256

-----------------------------------------------------------------------------
(* Properties of the ControlTransfer constructors (checked under            *)
(* SpecDescriptor)                                                          *)

\* C29: vendor_out, vendor_in, class_out and class_in build descriptors with
\* request type 0x40, 0xC0, 0x21 and 0xA1, direction Out, In, Out and In,
\* which is what bit 7 of the request type says, with the request code, the
\* value and the index they were given and a timeout of one second;
\* with_timeout returns the descriptor it was given with the new timeout
\* and every other field as it was.
C29_ConvenienceConstructors ==
    LET t == ct_built.transfer
        a == ct_built.args
    IN  /\ ct_built.ctor \in CtConstructors =>
            /\ DOMAIN t = {"request_type", "request", "value", "index",
                           "direction", "timeout_ms"}
            /\ t.request_type = CASE ct_built.ctor = "vendor_out" -> 64
                                  [] ct_built.ctor = "vendor_in"  -> 192
                                  [] ct_built.ctor = "class_out"  -> 33
                                  [] ct_built.ctor = "class_in"   -> 161
            /\ t.direction = IF ct_built.ctor \in {"vendor_in", "class_in"}
                             THEN "In" ELSE "Out"
            /\ (t.direction = "In") <=> ((t.request_type \div 128) % 2 = 1)
            /\ t.request = a[1]
            /\ t.value = a[2]
            /\ t.index = a[3]
            /\ t.timeout_ms = 1000
        /\ ct_built.ctor = "with_timeout" =>
            /\ DOMAIN t = DOMAIN a[1]
            /\ t.timeout_ms = a[2]
            /\ \A f \in DOMAIN t \ {"timeout_ms"} : t[f] = a[1][f]

\* the descriptor of vendor_in(0x01, 0x1234, 0x5678) given a timeout of
\* three seconds
C29_Witness ==
    /\ ct_built.ctor = "with_timeout"
    /\ ct_built.args[1].request_type = 192
    /\ ct_built.args[1].direction = "In"
    /\ ct_built.args[1].request = 1
    /\ ct_built.args[1].value = 4660
    /\ ct_built.args[1].index = 22136
    /\ ct_built.args[1].timeout_ms = 1000
    /\ ct_built.args[2] = 3000
    /\ ct_built.transfer.timeout_ms = 3000

-----------------------------------------------------------------------------
(* Properties of the Scarlett2 volume helpers (checked under                *)
(* SpecVolumeHelpers)                                                       *)

\* C30: db_to_mixer_volume is 0 for every dB value at or below -127 dB,
\* more than 60000 for 0 dB, within 0..65535 for every value above
\* -127 dB, and 65535 for every value from 0 dB up, where the scaled value
\* would pass the top of the range; mixer_volume_to_db(0) is -127 dB.
C30_VolumeHelpersFloorAndRange ==
    /\ vh_call.name = "db_to_mixer_volume" =>
        /\ vh_call.arg <= -1270 => vh_call.result = Exactly(0)
        /\ vh_call.arg = 0 => vh_call.result.lo > 60000
        /\ vh_call.arg > -1270 =>
            /\ 0 <= vh_call.result.lo
            /\ vh_call.result.lo <= vh_call.result.hi
            /\ vh_call.result.hi <= 65535
        /\ vh_call.arg >= 0 => vh_call.result = Exactly(65535)
    /\ (vh_call.name = "mixer_volume_to_db" /\ vh_call.arg = 0) =>
            vh_call.result = Exactly(-1270)

\* +20 dB: the scaled value, 655350, is brought down to 65535
C30_Witness ==
    /\ vh_call.name = "db_to_mixer_volume"
    /\ vh_call.arg = 200
    /\ Scaled(ExponentBelow(vh_call.arg)) > 65535
    /\ vh_call.result = Exactly(65535)

-----------------------------------------------------------------------------
(* Properties of the FCP socket messages (checked under SpecMessages) *)

\* The u32 the four bytes b[3..6] spell, least significant byte first, in
\* halves
LengthInBytes(b) == << b[5] + 256 * b[6], b[3] + 256 * b[4] >>

\* C40: a header encoded by to_bytes is six bytes, the magic, the type and
\* the payload length least significant byte first in bytes 2..6, and
\* from_bytes gives the header back; from_bytes refuses fewer than six
\* bytes; validate accepts exactly the headers whose magic is 0x53 or 0x73
\* and whose payload length is at most 2 MiB (2,097,152); a version message
\* encoded by to_bytes decodes to a message of the same version.
C40_MessageRoundTrip ==
    /\ msg_call.name = "header_round_trip" =>
        /\ Len(msg_call.bytes) = 6
        /\ \A i \in 1 .. 6 : msg_call.bytes[i] \in 0 .. 255
        /\ msg_call.bytes[1] = msg_call.arg.magic
        /\ msg_call.bytes[2] = msg_call.arg.msg_type
        /\ LengthInBytes(msg_call.bytes) = msg_call.arg.payload_length
        /\ msg_call.result = [kind |-> "ok", val |-> msg_call.arg]
    /\ (msg_call.name = "header_from_bytes" /\ Len(msg_call.arg) < 6) =>
        msg_call.result.kind = "protocol"
    /\ (msg_call.name = "header_from_bytes" /\ Len(msg_call.arg) >= 6) =>
        msg_call.result.kind = "ok"
    /\ msg_call.name = "header_validate" =>
        (msg_call.result.kind = "ok"
            <=> /\ msg_call.arg.magic \in {83, 115}
                /\ \/ msg_call.arg.payload_length[1] < 32
                   \/ msg_call.arg.payload_length = <<32, 0>>)
    /\ msg_call.name = "version_round_trip" =>
        /\ msg_call.result.kind = "ok"
        /\ msg_call.result.val.version = msg_call.arg.version
        /\ msg_call.result.val = msg_call.arg

\* The header of a response with a payload of 0x01020304 bytes went through
\* to_bytes and from_bytes
C40_Witness ==
    /\ msg_call.name = "header_round_trip"
    /\ msg_call.arg = [magic |-> 115, msg_type |-> 1, payload_length |-> <<258, 772>>]
    /\ msg_call.bytes = <<115, 1, 4, 3, 2, 1>>
    /\ msg_call.result.kind = "ok"

-----------------------------------------------------------------------------
(* Properties of the bus scan and of the product-ID table (checked under    *)
(* SpecDetect)                                                              *)

\* The path token of the bus addresses of UsbCatalog
ExpectedPath(d) ==
    CASE <<d.bus_number, d.device_address>> = <<1, 2>>    -> "usb-001-002"
      [] <<d.bus_number, d.device_address>> = <<1, 3>>    -> "usb-001-003"
      [] <<d.bus_number, d.device_address>> = <<1, 4>>    -> "usb-001-004"
      [] <<d.bus_number, d.device_address>> = <<2, 1>>    -> "usb-002-001"
      [] <<d.bus_number, d.device_address>> = <<12, 105>> -> "usb-012-105"

\* The product IDs of the model table
TablePids == { product_id(m) : m \in DeviceModels }

\* C27: a scan returns exactly one device record per enumerated USB device
\* whose vendor ID is 0x1235 and whose product ID is in the model table, in
\* enumeration order, with the model resolved from the product ID and the
\* path token derived from bus number and device address; devices of other
\* vendors and Focusrite devices with an unrecognized product ID are left
\* out and do not make the scan fail.
C27_ScanKeepsRecognizedFocusrite ==
    (det_op.name \in {"scan_devices", "scan_devices_internal"} /\ det_op.arg.ok) =>
        LET listed == det_op.arg.devices
            kept == { i \in 1..Len(listed) :
                        /\ listed[i].vendor_id = 4661
                        /\ listed[i].product_id \in TablePids }
            \* the number of kept devices up to place i of the listing
            rank(i) == Cardinality({ k \in kept : k <= i })
        IN  /\ det_result.kind = "ok"
            /\ Len(det_result.devices) = Cardinality(kept)
            /\ \A i \in kept :
                LET device == det_result.devices[rank(i)]
                IN  /\ product_id(device.model) = listed[i].product_id
                    /\ device.model = from_product_id(listed[i].product_id).val
                    /\ device.usb_path = ExpectedPath(listed[i])
                    /\ device.serial_number
                           = IF listed[i].serial_number = None THEN "Unknown"
                             ELSE listed[i].serial_number.val

\* a scan of a bus with an unrecognized Focusrite device enumerated before a
\* recognized one
C27_Witness ==
    /\ det_op.name = "scan_devices"
    /\ det_op.arg.ok
    /\ Len(det_op.arg.devices) = 2
    /\ det_op.arg.devices[1].vendor_id = 4661
    /\ det_op.arg.devices[1].product_id = 0
    /\ det_result.kind = "ok"
    /\ Len(det_result.devices) = 1
    /\ det_result.devices[1].usb_path = "usb-012-105"

\* C28: every model but the two that share 0x820C is found again from its
\* product ID; every product ID from_product_id recognizes is the product ID
\* of the model it yields; so two models have the same product ID only if
\* it is 0x820C; a product ID outside the table (0x0000) yields None; 0x821E
\* is the Scarlett 18i20 (4th Gen), of generation Gen4, and 0x8204 the
\* Scarlett 8i6 (1st Gen), of generation Gen1.
C28_ProductIdTable ==
    /\ (det_op.name = "product_id" /\ det_result # 33292) =>
            from_product_id(det_result) = Some(det_op.arg)
    /\ (det_op.name = "product_id" /\ det_result = 33292) =>
            det_op.arg \in {"Scarlett18i20Gen2", "Clarett8PrePlus"}
    /\ det_op.name = "product_id" =>
            \A m \in DeviceModels :
                (m # det_op.arg /\ product_id(m) = det_result) => det_result = 33292
    /\ (det_op.name = "from_product_id" /\ det_result # None) =>
            /\ det_result.val \in DeviceModels
            /\ product_id(det_result.val) = det_op.arg
    /\ (det_op.name = "from_product_id" /\ det_op.arg \notin TablePids) =>
            det_result = None
    /\ (det_op.name = "from_product_id" /\ det_op.arg \in TablePids) =>
            det_result # None
    /\ (det_op.name = "from_product_id" /\ det_op.arg = 33310) =>
            /\ det_result # None
            /\ DeviceModel_name(det_result.val) = "Scarlett 18i20 (4th Gen)"
            /\ generation(det_result.val) = "Gen4"
    /\ (det_op.name = "from_product_id" /\ det_op.arg = 33284) =>
            /\ det_result # None
            /\ DeviceModel_name(det_result.val) = "Scarlett 8i6 (1st Gen)"
            /\ generation(det_result.val) = "Gen1"

\* 0x820C looked up: it yields the Scarlett 18i20 (2nd Gen)
C28_Witness ==
    /\ det_op = [name |-> "from_product_id", arg |-> 33292]
    /\ det_result = Some("Scarlett18i20Gen2")

====
